---- MODULE Spec2Model ----
(***************************************************************************)
(* Model of the adventure mini-game of src/assets/js/adventureGame/code.js *)
(* (Character, GameControl, GameEnv, the two level tables, GameObject,     *)
(* Npc, Player and Prompt).  The page is taken as Prompt.initializePrompt  *)
(* leaves it.                                                              *)
(*                                                                         *)
(* JavaScript numbers are modelled as exact rationals <<n, d>> in lowest   *)
(* terms with d > 0, so a division is a division and not a truncation;     *)
(* the rounding of IEEE doubles is below this model.  Viewport dimensions  *)
(* are positive.  The header height GameEnv.top is taken as constant, so   *)
(* rectangles are kept in game coordinates.  The sprite animation state     *)
(* (frame counters and the facing direction, which selects the sprite    *)
(* row), the pass counter of handleLevelStart and the stats labels change  *)
(* no state that any other code reads and are left out.                    *)
(***************************************************************************)
EXTENDS Integers, Sequences, FiniteSets, TLC

VARIABLES
    started,            \* GameControl.start() has run
    viewport,           \* <<GameEnv.innerWidth, GameEnv.innerHeight>>
    objs,               \* every entity constructed so far (the heap), by handle
    gameObjects,        \* GameEnv.gameObjects: handles, in insertion order
    continueLevel,      \* GameEnv.continueLevel
    currentLevelIndex,  \* GameControl.currentLevelIndex
    loopArmed,          \* the gameLoop calls pending in requestAnimationFrame
    updateLog,          \* handles whose update() ran in the last step, in call order
    endLog,             \* what the last level-end handling did (history)
    opLog,              \* the method calls made so far by the entity-level driver
    pre,                \* the state before the driver's last call; in the game,
                        \* the viewport before the resize event just handled
    random,             \* the values Math.random() returns, in turn, repeating
    panel,              \* Prompt and the page's interaction panel
    panelLog,           \* what the last step did to the panel (history)
    passLog,            \* per update() of the last step: the velocity it
                        \* integrated and the hits its checks found (history)
    calc                \* the arguments and results of the functions applied alone

vars == <<started, viewport, objs, gameObjects, continueLevel, currentLevelIndex,
          loopArmed, updateLog, endLog, opLog, pre, random, panel, panelLog,
          passLog, calc>>

---------------------------------------------------------------------------
(* Bounds of the model *)

\* The step factor the model gives the players' descriptors.  The level
\* tables say STEP_FACTOR: 1000 (a thousand steps across the canvas); the
\* model crosses the canvas in this many steps.
PlayerStepFactor == 2
\* A key-down is delivered only while it leaves every listener's velocity
\* within this many steps per axis (key auto-repeat is unbounded in the code).
MaxPress == 1
\* The entity-level driver makes at most this many method calls.
MaxOps == 3
\* The questions of every quiz of the level tables (the tables have ten).
NumQuestions == 2

---------------------------------------------------------------------------
(* Numbers *)

Abs(i) == IF i < 0 THEN -i ELSE i

RECURSIVE GCD(_, _)
GCD(a, b) == IF b = 0 THEN a ELSE GCD(b, a % b)

\* n/d in lowest terms, d # 0
Rat(n, d) ==
    LET g == GCD(Abs(n), Abs(d))
        s == IF d < 0 THEN -1 ELSE 1
    IN  <<(s * n) \div g, (s * d) \div g>>

Zero == <<0, 1>>
Int2R(i) == <<i, 1>>
RAdd(a, b) == Rat(a[1] * b[2] + b[1] * a[2], a[2] * b[2])
RSub(a, b) == Rat(a[1] * b[2] - b[1] * a[2], a[2] * b[2])
RMul(a, b) == Rat(a[1] * b[1], a[2] * b[2])
RDiv(a, b) == Rat(a[1] * b[2], a[2] * b[1])
RNeg(a) == <<-a[1], a[2]>>
RLt(a, b) == a[1] * b[2] < b[1] * a[2]
RLe(a, b) == a[1] * b[2] <= b[1] * a[2]
RGt(a, b) == RLt(b, a)
RAbs(a) == <<Abs(a[1]), a[2]>>

---------------------------------------------------------------------------
(* Defaults of Character.js *)

SCALE_FACTOR == 25
STEP_FACTOR == 100
INIT_POSITION == [x |-> Zero, y |-> Zero]

\* The viewports the window takes in the game: <<innerWidth, innerHeight>>.
\* The last one is narrower than a player is wide (height / 5).
Viewports == {<<40, 40>>, <<4, 40>>}

---------------------------------------------------------------------------
(* Level tables: GameLevelDesert and GameLevelWater.  A table is built by  *)
(* the level's constructor from the viewport of that moment.               *)

NoHitbox == [widthPercentage |-> Zero, heightPercentage |-> Zero]

Hitbox(wn, wd, hn, hd) == [widthPercentage |-> Rat(wn, wd), heightPercentage |-> Rat(hn, hd)]

\* A descriptor without a quiz; the title "" stands for undefined
NoQuiz == [title |-> "", questions |-> <<>>]

\* The quiz of the descriptor id: its title and its questions, the question
\* k of that descriptor being written <<id, k>>
Questions(id) == [k \in 1..NumQuestions |-> <<id, k>>]

Quiz(id, title) == [title |-> title, questions |-> Questions(id)]

\* A sprite descriptor; scale and step 0 stand for "not given".
Sprite(class, id, scale, step, px, py, hitbox, quiz) ==
    [class |-> class, id |-> id, src |-> TRUE,
     SCALE_FACTOR |-> scale, STEP_FACTOR |-> step,
     INIT_POSITION |-> [x |-> px, y |-> py], hitbox |-> hitbox, quiz |-> quiz]

Image(id) ==
    [class |-> "Background", id |-> id, src |-> TRUE,
     SCALE_FACTOR |-> 0, STEP_FACTOR |-> 0,
     INIT_POSITION |-> INIT_POSITION, hitbox |-> NoHitbox, quiz |-> NoQuiz]

GameLevelDesert(vp) ==
    LET width == Int2R(vp[1])
        height == Int2R(vp[2])
        CHILLGUY_SCALE_FACTOR == 5
    IN  << Image("desert"),
           Sprite("Player", "Chill Guy", CHILLGUY_SCALE_FACTOR, PlayerStepFactor,
                  Zero, RSub(height, RDiv(height, Int2R(CHILLGUY_SCALE_FACTOR))),
                  Hitbox(45, 100, 2, 10), NoQuiz),
           Sprite("Npc", "Tux", 8, 0,
                  RDiv(width, Int2R(2)), RDiv(height, Int2R(2)),
                  Hitbox(1, 10, 2, 10), Quiz("Tux", "Linux Command Quiz")),
           Sprite("Npc", "Octocat", 10, 0,
                  RDiv(width, Int2R(4)), RDiv(height, Int2R(4)),
                  Hitbox(1, 10, 1, 10), Quiz("Octocat", "GitHub Command Quiz")),
           Sprite("Npc", "Robot", 10, 0,
                  RDiv(RMul(width, Int2R(3)), Int2R(4)),
                  RDiv(RMul(height, Int2R(3)), Int2R(4)),
                  Hitbox(1, 10, 2, 10), Quiz("Robot", "Jupyter Notebook Command Quiz")) >>

GameLevelWater(vp) ==
    LET width == Int2R(vp[1])
        height == Int2R(vp[2])
        OCTOPUS_SCALE_FACTOR == 5
    IN  << Image("Water"),
           Sprite("Player", "Octopus", OCTOPUS_SCALE_FACTOR, PlayerStepFactor,
                  Zero, RSub(height, RDiv(height, Int2R(OCTOPUS_SCALE_FACTOR))),
                  Hitbox(45, 100, 2, 10), NoQuiz),
           Sprite("Npc", "Javanomad", 10, 0,
                  RDiv(RMul(width, Int2R(3)), Int2R(4)),
                  RDiv(RMul(height, Int2R(3)), Int2R(4)),
                  Hitbox(1, 10, 2, 10), Quiz("Javanomad", "Jupyter Notebook Command Quiz")) >>

\* GameControl.start: this.levelClasses = [GameLevelDesert, GameLevelWater]
NumLevels == 2
LevelObjects(index, vp) == IF index = 0 THEN GameLevelDesert(vp) ELSE GameLevelWater(vp)

---------------------------------------------------------------------------
(* Rectangles: canvas.getBoundingClientRect(), in game coordinates *)

Rect(l, t, r, b) == [left |-> l, top |-> t, right |-> r, bottom |-> b]
RectWidth(r) == RSub(r.right, r.left)
RectHeight(r) == RSub(r.bottom, r.top)

\* A canvas that draw() has not styled yet lies where the page's flow puts
\* it; the page keeps it clear of the sprites already drawn.
FlowRect == Rect(Int2R(-1), Int2R(-1), Int2R(-1), Int2R(-1))

NoTouch == [top |-> FALSE, bottom |-> FALSE, left |-> FALSE, right |-> FALSE]
NoCollisionData == [hit |-> FALSE, this |-> NoTouch, other |-> ""]
AllMovement == [up |-> TRUE, down |-> TRUE, left |-> TRUE, right |-> TRUE]

---------------------------------------------------------------------------
(* Character *)

\* Character.resize that leaves the position where it was
CharacterResizeInPlace(o, vp) ==
    LET newScale == [width |-> Int2R(vp[1]), height |-> Int2R(vp[2])]
        size == RDiv(newScale.height, Int2R(o.scaleFactor))
    IN  [o EXCEPT
            !.scale = newScale,
            !.size = size,
            !.xVelocity = RDiv(newScale.width, Int2R(o.stepFactor)),
            !.yVelocity = RDiv(newScale.height, Int2R(o.stepFactor)),
            !.width = size,
            !.height = size]

\* Character.resize that never records the new scale
CharacterResizeStaleScale(o, vp) ==
    LET newScale == [width |-> Int2R(vp[1]), height |-> Int2R(vp[2])]
        size == RDiv(newScale.height, Int2R(o.scaleFactor))
    IN  [o EXCEPT
            !.position = [x |-> RMul(RDiv(o.position.x, o.scale.width), newScale.width),
                          y |-> RMul(RDiv(o.position.y, o.scale.height), newScale.height)],
            !.size = size,
            !.xVelocity = RDiv(newScale.width, Int2R(o.stepFactor)),
            !.yVelocity = RDiv(newScale.height, Int2R(o.stepFactor)),
            !.width = size,
            !.height = size]

\* Character.resize that takes both steps from the width
CharacterResizeStepsOfWidth(o, vp) ==
    LET newScale == [width |-> Int2R(vp[1]), height |-> Int2R(vp[2])]
        size == RDiv(newScale.height, Int2R(o.scaleFactor))
    IN  [o EXCEPT
            !.position = [x |-> RMul(RDiv(o.position.x, o.scale.width), newScale.width),
                          y |-> RMul(RDiv(o.position.y, o.scale.height), newScale.height)],
            !.scale = newScale,
            !.size = size,
            !.xVelocity = RDiv(newScale.width, Int2R(o.stepFactor)),
            !.yVelocity = RDiv(newScale.width, Int2R(o.stepFactor)),
            !.width = size,
            !.height = size]

\* Character.resize
CharacterResize(o, vp) ==
    LET newScale == [width |-> Int2R(vp[1]), height |-> Int2R(vp[2])]
        size == RDiv(newScale.height, Int2R(o.scaleFactor))
    IN  [o EXCEPT
            !.position = [x |-> RMul(RDiv(o.position.x, o.scale.width), newScale.width),
                          y |-> RMul(RDiv(o.position.y, o.scale.height), newScale.height)],
            !.scale = newScale,
            !.size = size,
            !.xVelocity = RDiv(newScale.width, Int2R(o.stepFactor)),
            !.yVelocity = RDiv(newScale.height, Int2R(o.stepFactor)),
            !.width = size,
            !.height = size]

\* Character.constructor up to the push into the registry (GameObject's
\* constructor included)
CharacterNew(data, vp, level) ==
    [class |-> data.class,
     id |-> data.id,
     level |-> level,
     canvas |-> TRUE,
     attached |-> TRUE,
     hitbox |-> data.hitbox,
     scale |-> [width |-> Int2R(vp[1]), height |-> Int2R(vp[2])],
     scaleFactor |-> IF data.SCALE_FACTOR # 0 THEN data.SCALE_FACTOR ELSE SCALE_FACTOR,
     stepFactor |-> IF data.STEP_FACTOR # 0 THEN data.STEP_FACTOR ELSE STEP_FACTOR,
     position |-> IF "INIT_POSITION" \in DOMAIN data THEN data.INIT_POSITION
                  ELSE INIT_POSITION,
     shared |-> "INIT_POSITION" \notin DOMAIN data,
     velocity |-> [x |-> Zero, y |-> Zero],
     size |-> Zero, width |-> Zero, height |-> Zero,
     xVelocity |-> Zero, yVelocity |-> Zero,
     rect |-> FlowRect,
     collisionData |-> NoCollisionData,
     collisionEvents |-> <<>>,
     movement |-> AllMovement,
     quiz |-> "",
     questions |-> <<>>,
     hits |-> <<>>,
     misses |-> <<>>,
     integrated |-> [x |-> Zero, y |-> Zero]]

\* Character.draw: the canvas is styled to the current position and size
CharacterDraw(o) ==
    [o EXCEPT !.rect = Rect(o.position.x, o.position.y,
                            RAdd(o.position.x, o.width), RAdd(o.position.y, o.height))]

---------------------------------------------------------------------------
(* GameObject: the base class *)

\* The fields GameObject's constructor sets (collisionData, hitbox,
\* collisionEvents, movement); the others are those of an entity without a
\* canvas
GameObjectState(vp, level) ==
    [class |-> "Subclass",
     id |-> "",
     level |-> level,
     canvas |-> FALSE,
     attached |-> FALSE,
     hitbox |-> NoHitbox,
     scale |-> [width |-> Int2R(vp[1]), height |-> Int2R(vp[2])],
     scaleFactor |-> 1,
     stepFactor |-> 1,
     position |-> INIT_POSITION,
     shared |-> FALSE,
     velocity |-> [x |-> Zero, y |-> Zero],
     size |-> Zero, width |-> Zero, height |-> Zero,
     xVelocity |-> Zero, yVelocity |-> Zero,
     rect |-> FlowRect,
     collisionData |-> NoCollisionData,
     collisionEvents |-> <<>>,
     movement |-> AllMovement,
     quiz |-> "",
     questions |-> <<>>,
     hits |-> <<>>,
     misses |-> <<>>,
     integrated |-> [x |-> Zero, y |-> Zero]]

\* A constructor of GameObject that never looks at new.target
GameObjectNewAnyTarget(heap, newTarget, vp, level) ==
    <<Append(heap, GameObjectState(vp, level)), FALSE>>

\* GameObject.constructor, new.target being the class constructed:
\* <<heap, whether it threw>>.  It pushes nothing into the registry.
GameObjectNew(heap, newTarget, vp, level) ==
    IF newTarget = "GameObject" THEN <<heap, TRUE>>
    ELSE <<Append(heap, GameObjectState(vp, level)), FALSE>>

\* GameObject.draw, update, resize and destroy, which a subclass must
\* override: <<heap, registry, whether it threw>>
GameObjectDraw(heap, reg, h) == <<heap, reg, TRUE>>

GameObjectUpdate(heap, reg, h) == <<heap, reg, TRUE>>

GameObjectResize(heap, reg, h) == <<heap, reg, TRUE>>

GameObjectDestroy(heap, reg, h) == <<heap, reg, TRUE>>

---------------------------------------------------------------------------
(* Background (Background.js) *)

BackgroundNew(data, vp, level) ==
    [class |-> "Background",
     id |-> data.id,
     level |-> level,
     canvas |-> FALSE,
     attached |-> FALSE,
     hitbox |-> NoHitbox,
     scale |-> [width |-> Int2R(vp[1]), height |-> Int2R(vp[2])],
     scaleFactor |-> 1,
     stepFactor |-> 1,
     position |-> INIT_POSITION,
     shared |-> FALSE,
     velocity |-> [x |-> Zero, y |-> Zero],
     size |-> Zero, width |-> Zero, height |-> Zero,
     xVelocity |-> Zero, yVelocity |-> Zero,
     rect |-> FlowRect,
     collisionData |-> NoCollisionData,
     collisionEvents |-> <<>>,
     movement |-> AllMovement,
     quiz |-> "",
     questions |-> <<>>,
     hits |-> <<>>,
     misses |-> <<>>,
     integrated |-> [x |-> Zero, y |-> Zero]]

---------------------------------------------------------------------------
(* GameObject: collisions *)

\* The hitbox of GameObject.isCollision: the canvas rectangle with left and
\* right moved in by the width reduction and top lowered by the height
\* reduction
HitboxRect(rect, hitbox) ==
    Rect(RAdd(rect.left, RMul(RectWidth(rect), hitbox.widthPercentage)),
         RAdd(rect.top, RMul(RectHeight(rect), hitbox.heightPercentage)),
         RSub(rect.right, RMul(RectWidth(rect), hitbox.widthPercentage)),
         rect.bottom)

\* collisionData in which hitboxes that touch along a side edge are a hit
CollisionDataTouching(this, other, id) ==
    [hit |-> /\ RLe(this.left, other.right)
             /\ RLe(other.left, this.right)
             /\ RLt(this.top, other.bottom)
             /\ RGt(this.bottom, other.top),
     this |-> [top |-> RGt(this.bottom, other.top) /\ RLt(this.top, other.top),
               bottom |-> RLt(this.top, other.bottom) /\ RGt(this.bottom, other.bottom),
               left |-> RGt(this.right, other.left) /\ RLt(this.left, other.left),
               right |-> RLt(this.left, other.right) /\ RGt(this.right, other.right)],
     other |-> id]

\* collisionData whose hit does not compare this bottom with the other top
CollisionDataAbove(this, other, id) ==
    [hit |-> /\ RLt(this.left, other.right)
             /\ RGt(this.right, other.left)
             /\ RLt(this.top, other.bottom),
     this |-> [top |-> RGt(this.bottom, other.top) /\ RLt(this.top, other.top),
               bottom |-> RLt(this.top, other.bottom) /\ RGt(this.bottom, other.bottom),
               left |-> RGt(this.right, other.left) /\ RLt(this.left, other.left),
               right |-> RLt(this.left, other.right) /\ RGt(this.right, other.right)],
     other |-> id]

\* collisionData whose touch points are set for a hit only
CollisionDataTouchOnHit(this, other, id) ==
    LET hit == /\ RLt(this.left, other.right)
               /\ RGt(this.right, other.left)
               /\ RLt(this.top, other.bottom)
               /\ RGt(this.bottom, other.top)
    IN  [hit |-> hit,
         this |-> [top |-> hit /\ RGt(this.bottom, other.top) /\ RLt(this.top, other.top),
                   bottom |-> hit /\ RLt(this.top, other.bottom)
                                  /\ RGt(this.bottom, other.bottom),
                   left |-> hit /\ RGt(this.right, other.left) /\ RLt(this.left, other.left),
                   right |-> hit /\ RLt(this.left, other.right)
                                 /\ RGt(this.right, other.right)],
         other |-> id]

\* The collisionData isCollision builds from the two hitboxes
CollisionData(this, other, id) ==
    [hit |-> /\ RLt(this.left, other.right)
             /\ RGt(this.right, other.left)
             /\ RLt(this.top, other.bottom)
             /\ RGt(this.bottom, other.top),
     this |-> [top |-> RGt(this.bottom, other.top) /\ RLt(this.top, other.top),
               bottom |-> RLt(this.top, other.bottom) /\ RGt(this.bottom, other.bottom),
               left |-> RGt(this.right, other.left) /\ RLt(this.left, other.left),
               right |-> RLt(this.left, other.right) /\ RGt(this.right, other.right)],
     other |-> id]

\* GameObject.isCollision: the new this.collisionData
IsCollision(this, other) ==
    CollisionData(HitboxRect(this.rect, this.hitbox),
                  HitboxRect(other.rect, other.hitbox), other.id)

Includes(seq, x) == \E i \in 1..Len(seq) : seq[i] = x

\* handleCollisionState that sets the movement permissions and leaves the
\* velocity as it is
HandleCollisionStateKeepsVelocity(o) ==
    IF Len(o.collisionEvents) > 0
    THEN [o EXCEPT
            !.movement = [up |-> ~o.collisionData.this.bottom,
                          down |-> ~o.collisionData.this.top,
                          left |-> ~o.collisionData.this.right,
                          right |-> ~o.collisionData.this.left]]
    ELSE o

\* handleCollisionState without the reset of the movement permissions: a
\* permission an earlier hit took away stays taken away
HandleCollisionStateMerges(o) ==
    IF Len(o.collisionEvents) > 0
    THEN LET touchPoints == o.collisionData.this
             vy1 == IF touchPoints.top /\ RGt(o.velocity.y, Zero) THEN Zero ELSE o.velocity.y
             vy2 == IF touchPoints.bottom /\ RLt(vy1, Zero) THEN Zero ELSE vy1
             vx1 == IF touchPoints.right /\ RLt(o.velocity.x, Zero) THEN Zero ELSE o.velocity.x
             vx2 == IF touchPoints.left /\ RGt(vx1, Zero) THEN Zero ELSE vx1
         IN  [o EXCEPT
                !.movement = [up |-> o.movement.up /\ ~touchPoints.bottom,
                              down |-> o.movement.down /\ ~touchPoints.top,
                              left |-> o.movement.left /\ ~touchPoints.right,
                              right |-> o.movement.right /\ ~touchPoints.left],
                !.velocity = [x |-> vx2, y |-> vy2]]
    ELSE o

\* GameObject.handleCollisionState
HandleCollisionState(o) ==
    IF Len(o.collisionEvents) > 0
    THEN LET touchPoints == o.collisionData.this
             vy1 == IF touchPoints.top /\ RGt(o.velocity.y, Zero) THEN Zero ELSE o.velocity.y
             vy2 == IF touchPoints.bottom /\ RLt(vy1, Zero) THEN Zero ELSE vy1
             vx1 == IF touchPoints.right /\ RLt(o.velocity.x, Zero) THEN Zero ELSE o.velocity.x
             vx2 == IF touchPoints.left /\ RGt(vx1, Zero) THEN Zero ELSE vx1
         IN  [o EXCEPT
                !.movement = [up |-> ~touchPoints.bottom, down |-> ~touchPoints.top,
                              left |-> ~touchPoints.right, right |-> ~touchPoints.left],
                !.velocity = [x |-> vx2, y |-> vy2]]
    ELSE o

\* GameObject.handleCollisionEvent (the greeting alert changes no state)
HandleCollisionEvent(o) ==
    LET objectOther == o.collisionData.other
        pushed == IF ~Includes(o.collisionEvents, objectOther)
                  THEN [o EXCEPT !.collisionEvents = Append(@, objectOther)]
                  ELSE o
    IN  HandleCollisionState(pushed)

\* The record of a hit with handleCollisionReaction called for every hit
HitGreetsAlways(o) ==
    [o EXCEPT !.hits = Append(@, [id |-> o.collisionData.other,
                                  touch |-> o.collisionData.this,
                                  velocity |-> o.velocity,
                                  position |-> o.position,
                                  greeted |-> TRUE])]

\* History: hits keeps the hits of the entity's latest collisionChecks, each
\* with the touch points isCollision gave the entity, the velocity and the
\* position the entity had when the hit was found, and whether
\* handleCollisionEvent goes on to call handleCollisionReaction for it
Hit(o) ==
    [o EXCEPT !.hits = Append(@, [id |-> o.collisionData.other,
                                  touch |-> o.collisionData.this,
                                  velocity |-> o.velocity,
                                  position |-> o.position,
                                  greeted |-> ~Includes(o.collisionEvents,
                                                        o.collisionData.other)])]

\* History: misses keeps the pairs of the entity's latest collisionChecks
\* that isCollision found to be no hit, with the touch points it gave
Miss(o) ==
    [o EXCEPT !.misses = Append(@, [id |-> o.collisionData.other,
                                    touch |-> o.collisionData.this])]

RECURSIVE CollisionLoop(_, _, _, _, _, _)
\* The body of the loop with handleCollisionState run for every pair, a hit
\* or not
CollisionHitSetsStateOnAMiss(heap, reg, me, o, i, detected) ==
    IF o.collisionData.hit
    THEN CollisionLoop(heap, reg, me, HandleCollisionEvent(Hit(o)), i + 1, TRUE)
    ELSE CollisionLoop(heap, reg, me, HandleCollisionState(Miss(o)), i + 1, detected)

\* The body of the loop of GameObject.collisionChecks once isCollision has
\* filled this.collisionData, and the rest of the loop
CollisionHit(heap, reg, me, o, i, detected) ==
    IF o.collisionData.hit
    THEN CollisionLoop(heap, reg, me, HandleCollisionEvent(Hit(o)), i + 1, TRUE)
    ELSE CollisionLoop(heap, reg, me, Miss(o), i + 1, detected)

\* GameObject.collisionChecks from registry index i on, with the reset of
\* collisionEvents that ends it when no pair was a hit
CollisionLoop(heap, reg, me, o, i, detected) ==
    IF i > Len(reg)
    THEN IF ~detected THEN [o EXCEPT !.collisionEvents = <<>>] ELSE o
    ELSE IF heap[reg[i]].canvas /\ reg[i] # me
    THEN CollisionHit(heap, reg, me,
                      [o EXCEPT !.collisionData = IsCollision(o, heap[reg[i]])],
                      i, detected)
    ELSE CollisionLoop(heap, reg, me, o, i + 1, detected)

\* GameObject.collisionChecks for the entity o with handle me
CollisionChecks(heap, reg, me, o) ==
    CollisionLoop(heap, reg, me, [o EXCEPT !.hits = <<>>, !.misses = <<>>], 1, FALSE)

---------------------------------------------------------------------------
(* update(), resize() and destroy() of the three classes *)

\* The boundary checks without the one at the right edge
ClampToCanvasButRight(o, vp) ==
    LET innerHeight == Int2R(vp[2])
        bottomHit == RGt(RAdd(o.position.y, o.height), innerHeight)
        y1 == IF bottomHit THEN RSub(innerHeight, o.height) ELSE o.position.y
        topHit == RLt(y1, Zero)
        leftHit == RLt(o.position.x, Zero)
    IN  [o EXCEPT
            !.position = [x |-> IF leftHit THEN Zero ELSE o.position.x,
                          y |-> IF topHit THEN Zero ELSE y1],
            !.velocity = [x |-> IF leftHit THEN Zero ELSE o.velocity.x,
                          y |-> IF bottomHit \/ topHit THEN Zero ELSE o.velocity.y]]

\* The boundary checks of Character.update, in the code's order
ClampToCanvas(o, vp) ==
    LET innerWidth == Int2R(vp[1])
        innerHeight == Int2R(vp[2])
        bottomHit == RGt(RAdd(o.position.y, o.height), innerHeight)
        y1 == IF bottomHit THEN RSub(innerHeight, o.height) ELSE o.position.y
        topHit == RLt(y1, Zero)
        y2 == IF topHit THEN Zero ELSE y1
        rightHit == RGt(RAdd(o.position.x, o.width), innerWidth)
        x1 == IF rightHit THEN RSub(innerWidth, o.width) ELSE o.position.x
        leftHit == RLt(x1, Zero)
        x2 == IF leftHit THEN Zero ELSE x1
    IN  [o EXCEPT
            !.position = [x |-> x2, y |-> y2],
            !.velocity = [x |-> IF rightHit \/ leftHit THEN Zero ELSE o.velocity.x,
                          y |-> IF bottomHit \/ topHit THEN Zero ELSE o.velocity.y]]

\* The position update of Character.update (history: integrated keeps the
\* velocity it added)
Integrate(o) ==
    [o EXCEPT !.position = [x |-> RAdd(o.position.x, o.velocity.x),
                            y |-> RAdd(o.position.y, o.velocity.y)],
              !.integrated = o.velocity]

\* The entity with handle me runs collision checks
Checks(heap, me) == heap[me].class = "Player"

\* What update() leaves behind that no code reads again.  collisionData is
\* written by isCollision before every read.  The canvas rectangle is read
\* by the entity's own checks, straight after its own draw(), and by the
\* checks of the other entities of the registry: it is kept only if there is
\* such an entity.
Unread(heap, reg, me, o) ==
    [o EXCEPT
        !.collisionData = NoCollisionData,
        !.rect = IF \E i \in 1..Len(reg) : reg[i] # me /\ Checks(heap, reg[i])
                 THEN @ ELSE FlowRect]

\* Character.update, for the entity with handle me
CharacterUpdate(heap, reg, me, vp) ==
    Unread(heap, reg, me,
           ClampToCanvas(
               Integrate(CollisionChecks(heap, reg, me, CharacterDraw(heap[me]))),
               vp))

\* Npc.update
NpcUpdate(o) == CharacterDraw(o)

\* Background.update and Background.resize only draw the image
BackgroundUpdate(o) == o

\* object.update() by the object's class
Update(heap, reg, me, vp) ==
    IF heap[me].class = "Player" THEN CharacterUpdate(heap, reg, me, vp)
    ELSE IF heap[me].class = "Npc" THEN NpcUpdate(heap[me])
    ELSE BackgroundUpdate(heap[me])

\* resize() that reaches the players only
ResizePlayers(o, vp) ==
    IF o.class = "Player" THEN CharacterResize(o, vp) ELSE o

\* object.resize() by the object's class
Resize(o, vp) ==
    IF o.class = "Background" THEN BackgroundUpdate(o) ELSE CharacterResize(o, vp)

\* Array.prototype.indexOf on the registry; 0 stands for -1
IndexOf(reg, h) ==
    IF \E i \in 1..Len(reg) : reg[i] = h
    THEN CHOOSE i \in 1..Len(reg) : reg[i] = h /\ \A j \in 1..(i - 1) : reg[j] # h
    ELSE 0

\* Array.prototype.splice(index, 1)
Splice(reg, index) == [i \in 1..(Len(reg) - 1) |-> IF i < index THEN reg[i] ELSE reg[i + 1]]

\* What is left of a Character once it is out of the registry and its canvas
\* is off the page: no code reaches it but its own key listeners, which
\* read the steps and write a velocity that nothing reads; the rest is
\* forgotten, but for a position that is the module's INIT_POSITION object.
Detached(o) ==
    [o EXCEPT
        !.attached = FALSE,
        !.position = IF o.shared THEN @ ELSE INIT_POSITION,
        !.velocity = [x |-> Zero, y |-> Zero],
        !.scale = [width |-> Zero, height |-> Zero],
        !.size = Zero, !.width = Zero, !.height = Zero,
        !.rect = Rect(Zero, Zero, Zero, Zero),
        !.collisionData = NoCollisionData,
        !.collisionEvents = <<>>,
        !.movement = AllMovement,
        !.hits = <<>>,
        !.misses = <<>>,
        !.integrated = [x |-> Zero, y |-> Zero]]

\* Character.destroy without the look-up in the registry
CharacterDestroyUnguarded(heap, reg, h) ==
    IF ~heap[h].attached THEN <<heap, reg, TRUE>>
    ELSE <<[heap EXCEPT ![h] = Detached(heap[h])], Splice(reg, IndexOf(reg, h)), FALSE>>

\* Character.destroy on handle h: <<heap, registry, threw>> afterwards.
\* this.canvas.parentNode is null for a canvas that is off the page, and
\* removeChild on it throws before the splice.
CharacterDestroy(heap, reg, h) ==
    IF IndexOf(reg, h) = 0 THEN <<heap, reg, FALSE>>
    ELSE IF ~heap[h].attached THEN <<heap, reg, TRUE>>
    ELSE <<[heap EXCEPT ![h] = Detached(heap[h])], Splice(reg, IndexOf(reg, h)), FALSE>>

\* Background.destroy on handle h
BackgroundDestroy(heap, reg, h) ==
    IF IndexOf(reg, h) = 0 THEN <<heap, reg, FALSE>>
    ELSE <<heap, Splice(reg, IndexOf(reg, h)), FALSE>>

\* object.destroy() by the object's class
Destroy(heap, reg, h) ==
    IF heap[h].class = "Background" THEN BackgroundDestroy(heap, reg, h)
    ELSE CharacterDestroy(heap, reg, h)

---------------------------------------------------------------------------
(* GameControl *)

\* The k-th value Math.random() returns
Random(k) == random[((k - 1) % Len(random)) + 1]

\* Math.floor of a number that is not negative
Floor(r) == r[1] \div r[2]

\* A swap that loses array[i]: array[i] = array[j] alone
SwapOverwrites(array, i, j) == [array EXCEPT ![i] = array[j]]

\* [array[i], array[j]] = [array[j], array[i]], on indices from 1
Swap(array, i, j) == [array EXCEPT ![i] = array[j], ![j] = array[i]]

\* The loop of Prompt.shuffleArray from i downwards (i as in the code, from
\* 0), n calls of Math.random() having been made before
RECURSIVE ShuffleFrom(_, _, _)
ShuffleFrom(array, i, n) ==
    IF i <= 0 THEN array
    ELSE ShuffleFrom(Swap(array, i + 1, Floor(RMul(Random(n + 1), Int2R(i + 1))) + 1),
                     i - 1, n + 1)

\* Prompt.shuffleArray
ShuffleArray(array, n) == ShuffleFrom(array, Len(array) - 1, n)

\* The calls of Math.random() made so far: by the Npc constructors, one per
\* question but the first
RECURSIVE Drawn(_)
Drawn(heap) ==
    IF heap = <<>> THEN 0
    ELSE Drawn(SubSeq(heap, 1, Len(heap) - 1))
         + (IF Len(heap[Len(heap)].questions) > 1
            THEN Len(heap[Len(heap)].questions) - 1 ELSE 0)

\* Npc.constructor after super(data): the quiz is the title of the
\* descriptor's quiz, the questions are its questions shuffled
NpcNew(o, data, n) ==
    [o EXCEPT !.quiz = data.quiz.title,
              !.questions = ShuffleArray(data.quiz.questions, n)]

\* The module's INIT_POSITION object as it is now: this.position of every
\* Character built from a descriptor without INIT_POSITION is this one
\* object, written through by each of them
DefaultPosition(heap) ==
    IF \E h \in 1..Len(heap) : heap[h].shared
    THEN heap[CHOOSE h \in 1..Len(heap) : heap[h].shared].position
    ELSE INIT_POSITION

\* this.position = data.INIT_POSITION || INIT_POSITION: the Character o
\* just built has the descriptor's position object or the module's
Placed(heap, o) ==
    IF o.shared THEN [o EXCEPT !.position = DefaultPosition(heap)] ELSE o

\* The heap once the entity with handle h has written its position: if its
\* position is the module's INIT_POSITION object, every entity that has
\* that object reads what was written
Aliased(heap, h) ==
    IF ~heap[h].shared THEN heap
    ELSE [g \in 1..Len(heap) |->
             IF heap[g].shared THEN [heap[g] EXCEPT !.position = heap[h].position]
             ELSE heap[g]]

\* The Player or Npc its constructor leaves: Character's constructor ends with
\* resize()
CharacterBuilt(heap, data, vp, level) ==
    IF data.class = "Npc"
    THEN NpcNew(CharacterResize(Placed(heap, CharacterNew(data, vp, level)), vp),
                data, Drawn(heap))
    ELSE CharacterResize(Placed(heap, CharacterNew(data, vp, level)), vp)

\* Construction in which an Npc never pushes itself into the registry
ConstructNpcUnregistered(heap, reg, data, vp, level) ==
    IF data.class = "Background"
    THEN <<Append(heap, BackgroundNew(data, vp, level)), Append(reg, Len(heap) + 1),
           FALSE>>
    ELSE <<Append(heap, CharacterBuilt(heap, data, vp, level)),
           IF data.class = "Npc" THEN reg ELSE Append(reg, Len(heap) + 1), FALSE>>

\* What Character's constructor leaves when it throws 'Sprite data is
\* required': its canvas, appended to the game container; the Player's or
\* Npc's own constructor never bound its key listeners
CharacterThrown(data, vp, level) ==
    [CharacterNew(data, vp, level) EXCEPT !.class = "Character",
                                          !.scaleFactor = SCALE_FACTOR,
                                          !.stepFactor = STEP_FACTOR,
                                          !.position = INIT_POSITION,
                                          !.shared = FALSE]

\* Construction that never looks at the descriptor's src
ConstructUnchecked(heap, reg, data, vp, level) ==
    IF data.class = "Background"
    THEN <<Append(heap, BackgroundNew(data, vp, level)), Append(reg, Len(heap) + 1),
           FALSE>>
    ELSE <<Append(heap, CharacterBuilt(heap, data, vp, level)),
           Append(reg, Len(heap) + 1), FALSE>>

\* new object.class(object.data): <<heap, registry, whether it threw>>
\* afterwards.  The constructor pushes the new entity and, for a Character,
\* then resizes it; a Character's constructor throws on a descriptor
\* without src, after its canvas is appended and before the push.
Construct(heap, reg, data, vp, level) ==
    LET h == Len(heap) + 1
    IN  IF data.class = "Background"
        THEN <<Append(heap, BackgroundNew(data, vp, level)), Append(reg, h), FALSE>>
        ELSE IF data.src
        THEN <<Append(heap, CharacterBuilt(heap, data, vp, level)),
               Append(reg, h), FALSE>>
        ELSE <<Append(heap, CharacterThrown(data, vp, level)), reg, TRUE>>

\* new Player() or new Npc(), data being null: the read of data.id throws
\* a TypeError before the canvas is appended
ConstructNull(heap, reg) == <<heap, reg, TRUE>>

RECURSIVE LoadLevelObjects(_, _, _, _, _, _)
\* The loop of GameControl.loadLevelObjects after entry i, made being what
\* the constructor of entry i left: a constructor that throws ends the loop
LoadRest(made, objects, i, vp, level) ==
    IF made[3] THEN made
    ELSE LoadLevelObjects(made[1], made[2], objects, i + 1, vp, level)

\* The loop of GameControl.loadLevelObjects from table entry i on:
\* <<heap, registry, whether a constructor threw>>
LoadLevelObjects(heap, reg, objects, i, vp, level) ==
    IF i > Len(objects) THEN <<heap, reg, FALSE>>
    ELSE LoadRest(Construct(heap, reg, objects[i], vp, level), objects, i, vp, level)

\* The update loop walking the registry from its last entity to its first
RECURSIVE UpdateLoopReversed(_, _, _, _, _)
UpdateLoopReversed(heap, reg, i, vp, log) ==
    IF i > Len(reg) THEN <<heap, log>>
    ELSE UpdateLoopReversed(
             [heap EXCEPT ![reg[Len(reg) + 1 - i]] =
                 Update(heap, reg, reg[Len(reg) + 1 - i], vp)],
             reg, i + 1, vp, Append(log, reg[Len(reg) + 1 - i]))

\* The loop of GameControl.gameLoop from registry index i on:
\* <<heap, handles updated so far>>
RECURSIVE UpdateLoop(_, _, _, _, _)
UpdateLoop(heap, reg, i, vp, log) ==
    IF i > Len(reg) THEN <<heap, log>>
    ELSE UpdateLoop(Aliased([heap EXCEPT ![reg[i]] = Update(heap, reg, reg[i], vp)],
                            reg[i]),
                    reg, i + 1, vp, Append(log, reg[i]))

\* The tear-down loop stopping one entity short (index > 0)
RECURSIVE TearDownButFirst(_, _, _, _)
TearDownButFirst(heap, reg, index, log) ==
    IF index <= 1 THEN <<heap, reg, log>>
    ELSE TearDownButFirst(Destroy(heap, reg, reg[index])[1],
                          Destroy(heap, reg, reg[index])[2],
                          index - 1, Append(log, reg[index]))

RECURSIVE TearDown(_, _, _, _)
\* The tear-down loop below index, d being what destroy() left
TearDownRest(d, index, log) == TearDown(d[1], d[2], index - 1, log)

\* The tear-down loop of GameControl.handleLevelEnd from index downwards:
\* <<heap, registry, handles destroy() was called on>>
TearDown(heap, reg, index, log) ==
    IF index < 1 THEN <<heap, reg, log>>
    ELSE TearDownRest(Destroy(heap, reg, reg[index]), index, Append(log, reg[index]))

\* The loop of GameControl.resize
RECURSIVE ResizeLoop(_, _, _, _)
ResizeLoop(heap, reg, i, vp) ==
    IF i > Len(reg) THEN heap
    ELSE ResizeLoop(Aliased([heap EXCEPT ![reg[i]] = Resize(heap[reg[i]], vp)], reg[i]),
                    reg, i + 1, vp)

\* History: the velocity each update() of a pass integrated, by handle, in
\* the order of the calls (zero for an update() that integrates nothing),
\* and the hits and the misses its checks found
Passed(heap, log) ==
    [i \in 1..Len(log) |-> [h |-> log[i], velocity |-> heap[log[i]].integrated,
                            hits |-> heap[log[i]].hits,
                            misses |-> heap[log[i]].misses]]

\* The heap once the history of a pass is taken from it: the hits keep the
\* ids and the touch points
Settled(heap) ==
    [h \in 1..Len(heap) |->
        [heap[h] EXCEPT !.integrated = [x |-> Zero, y |-> Zero],
                        !.misses = <<>>,
                        !.hits = [k \in 1..Len(@) |->
                                     [id |-> @[k].id, touch |-> @[k].touch]]]]

\* requestAnimationFrame(this.gameLoop.bind(this)) at the end of a gameLoop
\* call that updated: one more call is pending
Rearm(n) == n + 1

\* A gameLoop call that finds the continue flag false returns after
\* handleLevelEnd, without a request of its own
EndOfLoopRearms(n) == n + 1

EndOfLoop(n) == n

\* The level once its first pass is made: reg the registry, looped what the
\* update loop returned
FirstLooped(reg, looped) ==
    [objs |-> Settled(looped[1]), gameObjects |-> reg, updated |-> looped[2],
     passed |-> Passed(looped[1], looped[2]),
     armed |-> Rearm(0), continueLevel |-> TRUE]

\* The gameLoop() call that ends loadLevelObjects, on the <<heap, registry>>
\* it built; a constructor's error leaves loadLevelObjects before that call
FirstLoop(loaded, vp) ==
    IF loaded[3]
    THEN [objs |-> loaded[1], gameObjects |-> loaded[2], updated |-> <<>>,
          passed |-> <<>>, armed |-> 0, continueLevel |-> TRUE]
    ELSE FirstLooped(loaded[2], UpdateLoop(loaded[1], loaded[2], 1, vp, <<>>))

\* loadLevel without the check of the level index
LoadLevelUnchecked(heap, reg, index, vp, continue) ==
    FirstLoop(LoadLevelObjects(heap, <<>>, LevelObjects(index, vp), 1, vp, index), vp)

\* loadLevel without its GameEnv.continueLevel = true
LoadLevelKeepsFlag(heap, reg, index, vp, continue) ==
    IF index >= NumLevels
    THEN [objs |-> heap, gameObjects |-> reg, updated |-> <<>>, passed |-> <<>>,
          armed |-> 0, continueLevel |-> continue]
    ELSE [FirstLoop(LoadLevelObjects(heap, <<>>, LevelObjects(index, vp), 1, vp, index),
                    vp) EXCEPT !.continueLevel = continue]

\* GameControl.loadLevel with the level index already set: past the last
\* level it stops the timer and returns; else it empties the registry,
\* builds the level's table and calls loadLevelObjects, whose last call is
\* the level's first gameLoop pass.  updated: the handles that pass updated;
\* armed: the gameLoop calls it leaves scheduled.
LoadLevel(heap, reg, index, vp, continue) ==
    IF index >= NumLevels
    THEN [objs |-> heap, gameObjects |-> reg, updated |-> <<>>, passed |-> <<>>,
          armed |-> 0, continueLevel |-> continue]
    ELSE FirstLoop(LoadLevelObjects(heap, <<>>, LevelObjects(index, vp), 1, vp, index), vp)

NoEnd ==
    [ended |-> FALSE, alerts |-> <<>>, before |-> <<>>, destroyed |-> <<>>,
     left |-> <<>>, from |-> 0, index |-> 0]

---------------------------------------------------------------------------
(* Player key handlers *)

Keys == {"up", "left", "down", "right"}

\* Player.handleKeyDown
HandleKeyDown(o, key) ==
    IF key = "up"
    THEN [o EXCEPT !.velocity.y = RSub(@, o.yVelocity)]
    ELSE IF key = "left"
    THEN [o EXCEPT !.velocity.x = RSub(@, o.xVelocity)]
    ELSE IF key = "down"
    THEN [o EXCEPT !.velocity.y = RAdd(@, o.yVelocity)]
    ELSE IF key = "right"
    THEN [o EXCEPT !.velocity.x = RAdd(@, o.xVelocity)]
    ELSE o

\* handleKeyUp that stops the player on both axes
HandleKeyUpStops(o, key) ==
    IF key \in {"up", "left", "down", "right"}
    THEN [o EXCEPT !.velocity = [x |-> Zero, y |-> Zero]]
    ELSE o

\* Player.handleKeyUp
HandleKeyUp(o, key) ==
    IF key = "up" THEN [o EXCEPT !.velocity.y = Zero]
    ELSE IF key = "left" THEN [o EXCEPT !.velocity.x = Zero]
    ELSE IF key = "down" THEN [o EXCEPT !.velocity.y = Zero]
    ELSE IF key = "right" THEN [o EXCEPT !.velocity.x = Zero]
    ELSE o

\* Key-down listeners bound by every Character, Npcs too
KeyDownAllCharacters(heap, key) ==
    [h \in 1..Len(heap) |->
        IF heap[h].class = "Background" THEN heap[h]
        ELSE IF heap[h].attached THEN HandleKeyDown(heap[h], key)
        ELSE Detached(HandleKeyDown(heap[h], key))]

\* The listeners bound by bindMovementKeyListners are never removed: every
\* Player constructed so far hears every key event, a destroyed one too.
KeyDownAll(heap, key) ==
    [h \in 1..Len(heap) |->
        IF heap[h].class # "Player" THEN heap[h]
        ELSE IF heap[h].attached THEN HandleKeyDown(heap[h], key)
        ELSE Detached(HandleKeyDown(heap[h], key))]

KeyUpAll(heap, key) ==
    [h \in 1..Len(heap) |->
        IF heap[h].class # "Player" THEN heap[h]
        ELSE IF heap[h].attached THEN HandleKeyUp(heap[h], key)
        ELSE Detached(HandleKeyUp(heap[h], key))]

\* The bound on held keys: a key-down is delivered only if it leaves each
\* velocity it changes at a whole number of steps, at most MaxPress
InSteps(v, step) == \E m \in -MaxPress..MaxPress : v = RMul(Int2R(m), step)

WithinPress(old, new) ==
    /\ (new.velocity.x # old.velocity.x) => InSteps(new.velocity.x, new.xVelocity)
    /\ (new.velocity.y # old.velocity.y) => InSteps(new.velocity.y, new.yVelocity)

---------------------------------------------------------------------------
(* Prompt: the interaction panel.  isOpen is Prompt.isOpen; dims counts the *)
(* elements of id "dim" on the page; display is the title's display and the *)
(* panel's place on the screen; title, rows and submit are the content of   *)
(* the panel; log is the history of what the running handler did to it.     *)

PanelOp(op, npc, answers) == [op |-> op, npc |-> npc, answers |-> answers]

\* The page as Prompt.initializePrompt leaves it
NoPanel ==
    [isOpen |-> FALSE, dims |-> 0, currentNpc |-> 0, display |-> FALSE,
     title |-> "", rows |-> <<>>, submit |-> FALSE, log |-> <<>>]

\* Prompt.backgroundDim.create
BackgroundDimCreate(p) == [p EXCEPT !.dims = @ + 1]

\* What a panel taken off the screen keeps that no code reads again: the
\* current Npc and the content stay until openPromptPanel replaces them, and
\* are forgotten here
Hidden(p) ==
    [p EXCEPT !.currentNpc = 0, !.title = "", !.rows = <<>>, !.submit = FALSE]

\* Prompt.backgroundDim.remove; with no element of id "dim" on the page
\* dimDiv is null and dimDiv.remove() throws before anything is changed
BackgroundDimRemove(p) ==
    IF p.dims = 0 THEN p
    ELSE Hidden([p EXCEPT !.dims = @ - 1, !.isOpen = FALSE, !.display = FALSE,
                          !.log = Append(@, PanelOp("close", 0, <<>>))])

\* The rows Prompt.updatePromptTable makes of the current Npc's questions:
\* the label is the question after its number from 1, the input is tagged
\* with its index from 0
UpdatePromptTable(questions) ==
    [i \in 1..Len(questions) |->
        [number |-> i, question |-> questions[i], questionIndex |-> i - 1]]

\* npc.quiz.title: Npc's constructor made quiz the title, a string, and a
\* string has no property title; "" stands for undefined
QuizTitle(quiz) == ""

\* Prompt.openPromptPanel from this.currentNpc = npc on.  Reading the title
\* of an undefined quiz throws, the panel emptied and no overlay made.
ShowPanel(p, npc, h) ==
    IF npc.quiz = ""
    THEN [p EXCEPT !.currentNpc = h, !.isOpen = TRUE, !.display = TRUE,
                   !.title = "", !.rows = <<>>, !.submit = FALSE]
    ELSE BackgroundDimCreate(
             [p EXCEPT !.currentNpc = h, !.isOpen = TRUE, !.display = TRUE,
                       !.title = IF QuizTitle(npc.quiz) # ""
                                 THEN QuizTitle(npc.quiz) ELSE "Questions",
                       !.rows = UpdatePromptTable(npc.questions),
                       !.submit = TRUE,
                       !.log = Append(@, PanelOp("open", h, <<>>))])

\* Prompt.openPromptPanel that does not close the panel that is open
OpenPromptPanelOnTop(p, npc, h) == ShowPanel(p, npc, h)

\* Prompt.openPromptPanel(npc), npc being the entity of handle h
OpenPromptPanel(p, npc, h) ==
    ShowPanel(IF p.isOpen THEN BackgroundDimRemove(p) ELSE p, npc, h)

\* What the page's text inputs hold, trimmed, when Submit is clicked
Values == {"", "1"}

\* Prompt.handleSubmit that closes the panel only if every input is filled
HandleSubmitValidated(p, answers) ==
    IF \A i \in 1..Len(answers) : answers[i].answer # ""
    THEN BackgroundDimRemove([p EXCEPT !.isOpen = FALSE,
                                       !.log = Append(@, PanelOp("submit", 0, answers))])
    ELSE [p EXCEPT !.log = Append(@, PanelOp("submit", 0, answers))]

\* Prompt.handleSubmit: the answers are logged and an alert is shown
HandleSubmit(p, answers) ==
    BackgroundDimRemove([p EXCEPT !.isOpen = FALSE,
                                  !.log = Append(@, PanelOp("submit", 0, answers))])

---------------------------------------------------------------------------
(* Npc key handlers *)

InteractKeys == {"e", "u"}

\* The loop over the players that opens the panel whether one is open or not
RECURSIVE ForEachPlayerUnguarded(_, _, _, _)
ForEachPlayerUnguarded(p, npc, h, n) ==
    IF n = 0 THEN p
    ELSE ForEachPlayerUnguarded(OpenPromptPanel([p EXCEPT !.currentNpc = h], npc, h),
                                npc, h, n - 1)

\* The loop over the players of Npc.handleKeyInteract, n players to go
RECURSIVE ForEachPlayer(_, _, _, _)
ForEachPlayer(p, npc, h, n) ==
    IF n = 0 THEN p
    ELSE ForEachPlayer(IF ~p.isOpen
                       THEN OpenPromptPanel([p EXCEPT !.currentNpc = h], npc, h)
                       ELSE p,
                       npc, h, n - 1)

\* The entities of the registry whose collisionEvents include the id
Touching(heap, reg, id) ==
    SelectSeq(reg, LAMBDA g : Includes(heap[g].collisionEvents, id))

\* Npc.handleKeyInteract of the Npc of handle h
HandleKeyInteract(heap, reg, p, h) ==
    IF Len(Touching(heap, reg, heap[h].id)) > 0 /\ Len(heap[h].questions) > 0
    THEN ForEachPlayer(p, heap[h], h, Len(Touching(heap, reg, heap[h].id)))
    ELSE p

\* Npc.handleKeyDown that takes every key for an interact key
NpcHandleKeyDownAnyKey(heap, reg, p, h, key) == HandleKeyInteract(heap, reg, p, h)

\* Npc.handleKeyDown of the Npc of handle h
NpcHandleKeyDown(heap, reg, p, h, key) ==
    IF key = "e" \/ key = "u" THEN HandleKeyInteract(heap, reg, p, h) ELSE p

\* The listeners bound by bindInteractKeyListeners are never removed: every
\* Npc constructed so far hears every key-down, in the order of construction,
\* from handle h on.  (Npc.handleKeyUp clears a timeout that nothing sets.)
RECURSIVE NpcKeyDownAll(_, _, _, _, _)
NpcKeyDownAll(heap, reg, p, key, h) ==
    IF h > Len(heap) THEN p
    ELSE NpcKeyDownAll(heap, reg,
                       IF heap[h].class = "Npc"
                       THEN NpcHandleKeyDown(heap, reg, p, h, key) ELSE p,
                       key, h + 1)

---------------------------------------------------------------------------
(* The game: the page's events *)

NoPre == [objs |-> <<>>, gameObjects |-> <<>>, viewport |-> <<0, 0>>]

\* The values Math.random() returns in turn: the runs the model takes where
\* the panel shows the questions, and the one it takes where nothing does
Half == <<1, 2>>
RandomStreams == {<<Zero, Half>>, <<Half, Zero>>}
GameRandom == {<<Zero, Half>>}

NoCalc == [kind |-> "", done |-> ""]

Init ==
    /\ started = FALSE
    /\ viewport \in Viewports
    /\ random \in GameRandom
    /\ panel = NoPanel
    /\ panelLog = <<>>
    /\ passLog = <<>>
    /\ calc = NoCalc
    /\ objs = <<>>
    /\ gameObjects = <<>>
    /\ continueLevel = TRUE
    /\ currentLevelIndex = 0
    /\ loopArmed = 0
    /\ updateLog = <<>>
    /\ endLog = NoEnd
    /\ opLog = <<>>
    /\ pre = NoPre

\* The step leaves the panel alone
Quiet ==
    /\ panelLog' = <<>>
    /\ UNCHANGED <<random, panel, calc>>

\* What the handlers of the step made of the panel
Interacted(p) ==
    /\ panel' = [p EXCEPT !.log = <<>>]
    /\ panelLog' = p.log

\* What loadLevel leaves behind
Loaded(l, pending) ==
    /\ objs' = l.objs
    /\ gameObjects' = l.gameObjects
    /\ updateLog' = l.updated
    /\ passLog' = l.passed
    /\ loopArmed' = pending + l.armed
    /\ continueLevel' = l.continueLevel

\* GameControl.start(path)
Start ==
    /\ ~started
    /\ started' = TRUE
    /\ currentLevelIndex' = 0
    /\ Loaded(LoadLevel(objs, gameObjects, 0, viewport, continueLevel), loopArmed)
    /\ endLog' = NoEnd
    /\ pre' = NoPre
    /\ Quiet
    /\ UNCHANGED <<viewport, opLog>>

\* What the update loop of gameLoop leaves behind
Looped(looped) ==
    /\ objs' = Settled(looped[1])
    /\ updateLog' = looped[2]
    /\ passLog' = Passed(looped[1], looped[2])

\* A gameLoop call that updates without looking at the continue flag
TickUnconditional ==
    /\ loopArmed > 0
    /\ loopArmed' = Rearm(loopArmed - 1)
    /\ Looped(UpdateLoop(objs, gameObjects, 1, viewport, <<>>))
    /\ endLog' = NoEnd
    /\ pre' = NoPre
    /\ Quiet
    /\ UNCHANGED <<started, viewport, gameObjects, continueLevel, currentLevelIndex,
                   opLog>>

\* One gameLoop call made by requestAnimationFrame while the level continues
Tick ==
    /\ loopArmed > 0
    /\ loopArmed' = Rearm(loopArmed - 1)
    /\ continueLevel
    /\ Looped(UpdateLoop(objs, gameObjects, 1, viewport, <<>>))
    /\ endLog' = NoEnd
    /\ pre' = NoPre
    /\ Quiet
    /\ UNCHANGED <<started, viewport, gameObjects, continueLevel, currentLevelIndex,
                   opLog>>

\* A level end that goes back one level
LevelEndedBackwards(alert, torn) ==
    /\ currentLevelIndex' = IF currentLevelIndex > 0 THEN currentLevelIndex - 1
                            ELSE currentLevelIndex + 1
    /\ endLog' = [ended |-> TRUE, alerts |-> <<alert>>, before |-> gameObjects,
                  destroyed |-> torn[3], left |-> torn[2],
                  from |-> currentLevelIndex, index |-> currentLevelIndex + 1]
    /\ Loaded(LoadLevel(torn[1], torn[2],
                        IF currentLevelIndex > 0 THEN currentLevelIndex - 1
                        ELSE currentLevelIndex + 1, viewport, continueLevel),
              EndOfLoop(loopArmed - 1))

\* A level end that loads the level it ended once more
LevelEndedSameLevel(alert, torn) ==
    /\ currentLevelIndex' = currentLevelIndex
    /\ endLog' = [ended |-> TRUE, alerts |-> <<alert>>, before |-> gameObjects,
                  destroyed |-> torn[3], left |-> torn[2],
                  from |-> currentLevelIndex, index |-> currentLevelIndex]
    /\ Loaded(LoadLevel(torn[1], torn[2], currentLevelIndex, viewport, continueLevel),
              EndOfLoop(loopArmed - 1))

\* GameControl.handleLevelEnd from the tear-down on, torn being what the
\* tear-down loop left
LevelEnded(alert, torn) ==
    /\ currentLevelIndex' = currentLevelIndex + 1
    /\ endLog' = [ended |-> TRUE, alerts |-> <<alert>>, before |-> gameObjects,
                  destroyed |-> torn[3], left |-> torn[2],
                  from |-> currentLevelIndex, index |-> currentLevelIndex + 1]
    /\ Loaded(LoadLevel(torn[1], torn[2], currentLevelIndex + 1, viewport, continueLevel),
              EndOfLoop(loopArmed - 1))

\* One gameLoop call that finds the continue flag false: handleLevelEnd,
\* which ends in loadLevel
LevelEnd ==
    /\ loopArmed > 0
    /\ ~continueLevel
    /\ LevelEnded(IF currentLevelIndex < NumLevels - 1
                  THEN "Level ended." ELSE "Game over. All levels completed.",
                  TearDown(objs, gameObjects, Len(gameObjects), <<>>))
    /\ pre' = NoPre
    /\ Quiet
    /\ UNCHANGED <<started, viewport, opLog>>

\* No direction key is held: the velocity of every Player on the page is zero
AtRest(heap) ==
    \A h \in 1..Len(heap) :
        heap[h].class = "Player" => heap[h].velocity = [x |-> Zero, y |-> Zero]

\* keydown of Escape: the listener of addExitKeyListener.  Escape is pressed
\* only while no direction key is held.
ExitKey ==
    /\ started
    /\ AtRest(objs)
    /\ continueLevel' = FALSE
    /\ updateLog' = <<>>
    /\ passLog' = <<>>
    /\ endLog' = NoEnd
    /\ pre' = NoPre
    /\ Quiet
    /\ UNCHANGED <<started, viewport, objs, gameObjects, currentLevelIndex, loopArmed,
                   opLog>>

\* The key-down is delivered if it keeps the velocities within the bound
Pressed(heap) ==
    /\ (\A h \in 1..Len(objs) : WithinPress(objs[h], heap[h])) = TRUE
    /\ objs' = heap

\* keydown of a direction key or of an interact key: the listeners of the
\* Players and of the Npcs
KeyDown(key) ==
    /\ started
    /\ Pressed(KeyDownAll(objs, key))
    /\ Interacted(NpcKeyDownAll(objs, gameObjects, panel, key, 1))
    /\ updateLog' = <<>>
    /\ passLog' = <<>>
    /\ endLog' = NoEnd
    /\ pre' = NoPre
    /\ UNCHANGED <<started, viewport, gameObjects, continueLevel, currentLevelIndex,
                   loopArmed, opLog, random, calc>>

\* keyup of a direction key or of an interact key
KeyUp(key) ==
    /\ started
    /\ objs' = KeyUpAll(objs, key)
    /\ updateLog' = <<>>
    /\ passLog' = <<>>
    /\ endLog' = NoEnd
    /\ pre' = NoPre
    /\ Quiet
    /\ UNCHANGED <<started, viewport, gameObjects, continueLevel, currentLevelIndex,
                   loopArmed, opLog>>

\* The window's resize event: GameControl.resize.  The window is resized
\* only while no direction key is held.  pre keeps the viewport it had.
ResizeEvent(vp) ==
    /\ AtRest(objs)
    /\ viewport' = vp
    /\ objs' = ResizeLoop(objs, gameObjects, 1, vp)
    /\ updateLog' = <<>>
    /\ passLog' = <<>>
    /\ endLog' = NoEnd
    /\ pre' = [NoPre EXCEPT !.viewport = viewport]
    /\ Quiet
    /\ UNCHANGED <<started, gameObjects, continueLevel, currentLevelIndex, loopArmed,
                   opLog>>

\* What a click on the panel or on the overlay leaves behind
Clicked(p) ==
    /\ Interacted(p)
    /\ updateLog' = <<>>
    /\ passLog' = <<>>
    /\ endLog' = NoEnd
    /\ pre' = NoPre
    /\ UNCHANGED <<started, viewport, objs, gameObjects, continueLevel,
                   currentLevelIndex, loopArmed, opLog, random, calc>>

\* A click on the Submit button of the panel, which is on the screen while
\* the panel is open; answers are the values of the inputs
Submit(answers) ==
    /\ panel.isOpen
    /\ panel.submit
    /\ Clicked(HandleSubmit(panel, answers))

\* A click on the dim overlay: its listener is backgroundDim.remove
DimClick ==
    /\ panel.dims > 0
    /\ Clicked(BackgroundDimRemove(panel))

\* The answers Submit collects: one per input of the panel
Answers(p) ==
    {[i \in 1..Len(p.rows) |->
         [questionIndex |-> p.rows[i].questionIndex, answer |-> v[i]]] :
     v \in [1..Len(p.rows) -> Values]}

Next ==
    \/ Start
    \/ Tick
    \/ LevelEnd
    \/ ExitKey
    \/ \E key \in Keys : KeyDown(key)
    \/ \E key \in Keys : KeyUp(key)
    \/ \E vp \in Viewports : ResizeEvent(vp)

Spec == Init /\ [][Next]_vars

\* The step of Next that start() makes, told by what it changes
StartDue == ~started /\ started' = TRUE

\* The step of Next that a gameLoop call finding the continue flag false
\* makes, told by what it changes
LevelEndDue ==
    loopArmed > 0 /\ ~continueLevel /\ currentLevelIndex' = currentLevelIndex + 1

\* The game whose page calls start() once loaded and whose browser runs the
\* gameLoop call requestAnimationFrame was asked for: weak fairness of Start
\* and of LevelEnd, stated on the steps of Next that change started and the
\* level index.  A gameLoop call that updates needs no fairness: it ends
\* no level.
LiveSpec ==
    Init /\ [][Next]_vars /\ WF_started(StartDue) /\ WF_currentLevelIndex(LevelEndDue)

---------------------------------------------------------------------------
(* The game with its panel: the interact keys and the clicks on the panel,  *)
(* in a window in which the player reaches every Npc of the first level.    *)

PanelViewports == {<<20, 40>>}

PanelInit ==
    /\ started = FALSE
    /\ viewport \in PanelViewports
    /\ random \in GameRandom
    /\ objs = <<>>
    /\ gameObjects = <<>>
    /\ continueLevel = TRUE
    /\ currentLevelIndex = 0
    /\ loopArmed = 0
    /\ updateLog = <<>>
    /\ endLog = NoEnd
    /\ opLog = <<>>
    /\ pre = NoPre
    /\ panel = NoPanel
    /\ panelLog = <<>>
    /\ passLog = <<>>
    /\ calc = NoCalc

PanelNext ==
    \/ Start
    \/ Tick
    \/ LevelEnd
    \/ ExitKey
    \/ \E key \in Keys \cup InteractKeys : KeyDown(key)
    \/ \E key \in Keys \cup InteractKeys : KeyUp(key)
    \/ \E answers \in Answers(panel) : Submit(answers)
    \/ DimClick

PanelSpec == PanelInit /\ [][PanelNext]_vars

---------------------------------------------------------------------------
(* A level list that names the first level twice, levelClasses =           *)
(* [GameLevelDesert, GameLevelDesert]: the game once the first level is    *)
(* torn down and the second, the last of the list, is loaded.              *)

\* loadLevel of the second level on what the tear-down loop left
ReplayLoaded(torn, vp) ==
    FirstLoop(LoadLevelObjects(torn[1], <<>>, LevelObjects(0, vp), 1, vp, 1), vp)

\* handleLevelEnd of the first level (SubSeq hands TLC the heap as a tuple)
ReplayTorn(first, vp) ==
    ReplayLoaded(TearDown(SubSeq(first.objs, 1, Len(first.objs)), first.gameObjects,
                          Len(first.gameObjects), <<>>), vp)

ReplayLevel(vp) == ReplayTorn(LoadLevel(<<>>, <<>>, 0, vp, TRUE), vp)

ReplayInit ==
    /\ started = TRUE
    /\ viewport \in PanelViewports
    /\ random \in GameRandom
    /\ objs = ReplayLevel(viewport).objs
    /\ gameObjects = ReplayLevel(viewport).gameObjects
    /\ continueLevel = TRUE
    /\ currentLevelIndex = 1
    /\ loopArmed = 1
    /\ updateLog = ReplayLevel(viewport).updated
    /\ passLog = ReplayLevel(viewport).passed
    /\ endLog = NoEnd
    /\ opLog = <<>>
    /\ pre = NoPre
    /\ panel = NoPanel
    /\ panelLog = <<>>
    /\ calc = NoCalc

ReplayNext ==
    \/ Tick
    \/ LevelEnd
    \/ ExitKey
    \/ \E key \in Keys \cup InteractKeys : KeyDown(key)
    \/ \E key \in Keys \cup InteractKeys : KeyUp(key)
    \/ \E answers \in Answers(panel) : Submit(answers)
    \/ DimClick

ReplaySpec == ReplayInit /\ [][ReplayNext]_vars

---------------------------------------------------------------------------
(* The whole page: the game with its panel in a window that is resized      *)

PageViewports == {<<20, 40>>, <<4, 40>>}

PageNext ==
    \/ PanelNext
    \/ \E vp \in PageViewports : ResizeEvent(vp)

PageSpec == PanelInit /\ [][PageNext]_vars

---------------------------------------------------------------------------
(* The entities' methods called one at a time on a level just built: the   *)
(* calls a test of the classes makes.                                      *)

\* The window sizes of these calls
OpsViewports == {<<40, 40>>, <<30, 20>>}

\* An entry of opLog: the call, the entity or key or window size it was
\* given, the viewport at the call and whether it threw
Op(op, h, key, vp, threw) ==
    [op |-> op, h |-> h, key |-> key, vp |-> vp, was |-> viewport, threw |-> threw]

\* The first level's entities as their constructors leave them
OpsInit ==
    /\ started = TRUE
    /\ viewport \in OpsViewports
    /\ random \in GameRandom
    /\ panel = NoPanel
    /\ panelLog = <<>>
    /\ passLog = <<>>
    /\ calc = NoCalc
    /\ objs = LoadLevelObjects(<<>>, <<>>, LevelObjects(0, viewport), 1, viewport, 0)[1]
    /\ gameObjects = LoadLevelObjects(<<>>, <<>>, LevelObjects(0, viewport), 1, viewport, 0)[2]
    /\ continueLevel = TRUE
    /\ currentLevelIndex = 0
    /\ loopArmed = 0
    /\ updateLog = <<>>
    /\ endLog = NoEnd
    /\ opLog = <<>>
    /\ pre = NoPre

\* What every call records
Called(entry) ==
    /\ Len(opLog) < MaxOps
    /\ opLog' = Append(opLog, entry)
    /\ pre' = [objs |-> objs, gameObjects |-> gameObjects, viewport |-> viewport]
    /\ UNCHANGED <<started, continueLevel, currentLevelIndex, loopArmed, updateLog, endLog,
                   random, calc>>

\* The call is not one of the panel or of the loop
Plain == UNCHANGED <<panel, panelLog, passLog>>

\* What destroy() leaves behind
Destroyed(h, d) ==
    /\ objs' = d[1]
    /\ gameObjects' = d[2]
    /\ Called(Op("destroy", h, "", viewport, d[3]))
    /\ Plain

\* entity.destroy(), on an entity in the registry or on one destroyed before
CallDestroy(h) ==
    /\ Destroyed(h, Destroy(objs, gameObjects, h))
    /\ UNCHANGED viewport

\* The window is resized and GameControl.resize() runs
CallResize(vp) ==
    /\ viewport' = vp
    /\ objs' = ResizeLoop(objs, gameObjects, 1, vp)
    /\ Called(Op("resize", 0, "", vp, FALSE))
    /\ Plain
    /\ UNCHANGED gameObjects

\* A keydown event of a direction key
CallKeyDown(key) ==
    /\ objs' = KeyDownAll(objs, key)
    /\ Called(Op("keydown", 0, key, viewport, FALSE))
    /\ Plain
    /\ UNCHANGED <<viewport, gameObjects>>

\* A keyup event of a direction key
CallKeyUp(key) ==
    /\ objs' = KeyUpAll(objs, key)
    /\ Called(Op("keyup", 0, key, viewport, FALSE))
    /\ Plain
    /\ UNCHANGED <<viewport, gameObjects>>

\* The descriptors handed to a constructor: the Player's and the first
\* Npc's of the level's table, as they are or without src
OpsDescriptors(vp) ==
    {[LevelObjects(0, vp)[i] EXCEPT !.src = src] : i \in {2, 3}, src \in BOOLEAN}

\* What a constructor leaves behind
Constructed(key, c) ==
    /\ objs' = c[1]
    /\ gameObjects' = c[2]
    /\ Called(Op("new", 0, key, viewport, c[3]))
    /\ Plain
    /\ UNCHANGED viewport

\* new Player(data) or new Npc(data)
CallConstruct(data) ==
    Constructed(IF data.src THEN data.class ELSE "nosrc",
                Construct(objs, gameObjects, data, viewport, currentLevelIndex))

\* new Player() or new Npc()
CallConstructNull ==
    Constructed("null", ConstructNull(objs, gameObjects))

\* The Players, Npcs and Backgrounds some variable of the program refers to
Referenced(heap) ==
    {h \in 1..Len(heap) : heap[h].class \in {"Player", "Npc", "Background"}}

\* The instances of a class that extends GameObject and overrides nothing
Subclassed(heap) == {h \in 1..Len(heap) : heap[h].class = "Subclass"}

\* What a constructor of GameObject or of such a class leaves behind
GameObjectConstructed(newTarget, c) ==
    /\ objs' = c[1]
    /\ gameObjects' = gameObjects
    /\ Called(Op("new", 0, newTarget, viewport, c[2]))
    /\ Plain
    /\ UNCHANGED viewport

\* new GameObject(), or new of a class that extends it and overrides nothing
CallGameObjectNew(newTarget) ==
    GameObjectConstructed(newTarget,
                          GameObjectNew(objs, newTarget, viewport, currentLevelIndex))

\* What a call of an inherited method leaves behind
AbstractCalled(method, h, r) ==
    /\ objs' = r[1]
    /\ gameObjects' = r[2]
    /\ Called(Op("abstract", h, method, viewport, r[3]))
    /\ Plain
    /\ UNCHANGED viewport

\* draw(), update(), resize() or destroy() on an instance of such a class
CallAbstract(method, h) ==
    AbstractCalled(method, h,
                   CASE method = "draw" -> GameObjectDraw(objs, gameObjects, h)
                     [] method = "update" -> GameObjectUpdate(objs, gameObjects, h)
                     [] method = "resize" -> GameObjectResize(objs, gameObjects, h)
                     [] OTHER -> GameObjectDestroy(objs, gameObjects, h))

\* The constructors and the inherited methods called one at a time, between
\* destroy() and resize() calls, on a level just built
NewNext ==
    \/ \E h \in Referenced(objs) : CallDestroy(h)
    \/ \E vp \in OpsViewports : CallResize(vp)
    \/ \E data \in OpsDescriptors(viewport) : CallConstruct(data)
    \/ CallConstructNull
    \/ \E newTarget \in {"GameObject", "Subclass"} : CallGameObjectNew(newTarget)
    \/ \E method \in {"draw", "update", "resize", "destroy"} :
          \E h \in Subclassed(objs) : CallAbstract(method, h)

NewSpec == OpsInit /\ [][NewNext]_vars

OpsNext ==
    \/ \E h \in 1..Len(objs) : CallDestroy(h)
    \/ \E vp \in OpsViewports : CallResize(vp)
    \/ \E key \in Keys : CallKeyDown(key)
    \/ \E key \in Keys : CallKeyUp(key)

OpsSpec == OpsInit /\ [][OpsNext]_vars

---------------------------------------------------------------------------
(* Prompt's methods and the page's events called one at a time on a level   *)
(* just built, in a window in which the Player is made next to an Npc.      *)

PromptViewports == {<<4, 40>>}

PromptInit ==
    /\ started = TRUE
    /\ viewport \in PromptViewports
    /\ random \in RandomStreams
    /\ panel = NoPanel
    /\ panelLog = <<>>
    /\ passLog = <<>>
    /\ calc = NoCalc
    /\ objs = LoadLevelObjects(<<>>, <<>>, LevelObjects(0, viewport), 1, viewport, 0)[1]
    /\ gameObjects = LoadLevelObjects(<<>>, <<>>, LevelObjects(0, viewport), 1, viewport, 0)[2]
    /\ continueLevel = TRUE
    /\ currentLevelIndex = 0
    /\ loopArmed = 0
    /\ updateLog = <<>>
    /\ endLog = NoEnd
    /\ opLog = <<>>
    /\ pre = [NoPre EXCEPT !.viewport = viewport] @@ [panel |-> NoPanel]

\* What every one of these calls records: pre keeps the panel too
PromptCalled(entry) ==
    /\ Len(opLog) < MaxOps
    /\ opLog' = Append(opLog, entry)
    /\ pre' = [objs |-> objs, gameObjects |-> gameObjects, viewport |-> viewport,
               panel |-> panel]
    /\ UNCHANGED <<started, viewport, gameObjects, continueLevel, currentLevelIndex,
                   loopArmed, endLog, random, calc>>

\* A call that leaves the entities alone
OnThePanel(p, entry) ==
    /\ Interacted(p)
    /\ PromptCalled(entry)
    /\ UNCHANGED <<objs, updateLog, passLog>>

\* Prompt.openPromptPanel(npc) on an Npc of the level
CallOpenPromptPanel(h) ==
    /\ objs[h].class = "Npc"
    /\ OnThePanel(OpenPromptPanel(panel, objs[h], h), Op("open", h, "", viewport, FALSE))

\* A click on the Submit button of the open panel
CallHandleSubmit(answers) ==
    /\ panel.isOpen
    /\ panel.submit
    /\ OnThePanel(HandleSubmit(panel, answers), Op("submit", 0, "", viewport, FALSE))

\* A click on the dim overlay
CallDimClick ==
    /\ panel.dims > 0
    /\ OnThePanel(BackgroundDimRemove(panel), Op("dim", 0, "", viewport, FALSE))

\* A keydown event of an interact key
CallInteractKey(key) ==
    /\ OnThePanel(NpcKeyDownAll(objs, gameObjects, panel, key, 1),
                  Op("keydown", 0, key, viewport, FALSE))

\* One pass of the update loop of gameLoop
CallGameLoop ==
    /\ Looped(UpdateLoop(objs, gameObjects, 1, viewport, <<>>))
    /\ PromptCalled(Op("gameLoop", 0, "", viewport, FALSE))
    /\ Quiet

PromptNext ==
    \/ \E h \in 1..Len(objs) : CallOpenPromptPanel(h)
    \/ \E answers \in Answers(panel) : CallHandleSubmit(answers)
    \/ CallDimClick
    \/ \E key \in InteractKeys : CallInteractKey(key)
    \/ CallGameLoop

PromptSpec == PromptInit /\ [][PromptNext]_vars

---------------------------------------------------------------------------
(* The functions applied alone: isCollision on two canvases, both ways, and *)
(* one key-down on a Player just constructed.                               *)

\* The window sizes, scale factors and step factors of the Players
CalcViewports == {<<1000, 800>>, <<40, 40>>, <<30, 20>>}
CalcScaleFactors == {5, 8, 10}
CalcStepFactors == {1000, 100, 2}

\* The canvases: the edges of the first, and the places and sizes of the
\* second, which lies apart from the first, touches it along an edge or
\* overlaps it
CalcEdges == {-50, -40, 0, 40, 45, 50}
CalcSizes == {<<50, 50>>, <<20, 100>>}
CalcHitboxes == {NoHitbox, Hitbox(1, 10, 2, 10)}

\* What isCollision reads of an entity
Canvas(id, l, t, w, h, hitbox) ==
    [id |-> id, hitbox |-> hitbox,
     rect |-> Rect(Int2R(l), Int2R(t), Int2R(l + w), Int2R(t + h))]

CollisionCases ==
    {[kind |-> "collision", done |-> "",
      a |-> Canvas("a", 0, 0, 50, 50, ha),
      b |-> Canvas("b", l, t, wh[1], wh[2], hb)] :
     l \in CalcEdges, t \in CalcEdges, wh \in CalcSizes,
     ha \in CalcHitboxes, hb \in CalcHitboxes}

PlayerCases ==
    {[kind |-> "player", done |-> "", vp |-> vp, scaleFactor |-> sf, stepFactor |-> st,
      player |-> CharacterBuilt(<<>>, Sprite("Player", "player", sf, st, Zero, Zero,
                                             NoHitbox, NoQuiz), vp, 0)] :
     vp \in CalcViewports, sf \in CalcScaleFactors, st \in CalcStepFactors}

CalcInit ==
    /\ started = FALSE
    /\ viewport = <<40, 40>>
    /\ random \in GameRandom
    /\ objs = <<>>
    /\ gameObjects = <<>>
    /\ continueLevel = TRUE
    /\ currentLevelIndex = 0
    /\ loopArmed = 0
    /\ updateLog = <<>>
    /\ endLog = NoEnd
    /\ opLog = <<>>
    /\ pre = NoPre
    /\ panel = NoPanel
    /\ panelLog = <<>>
    /\ passLog = <<>>
    /\ calc \in CollisionCases \cup PlayerCases

\* Nothing but calc changes
Alone ==
    UNCHANGED <<started, viewport, objs, gameObjects, continueLevel, currentLevelIndex,
                loopArmed, updateLog, endLog, opLog, pre, random, panel, panelLog,
                passLog>>

\* a.isCollision(b) and b.isCollision(a) on the same canvases
Collide ==
    /\ calc.kind = "collision"
    /\ calc.done = ""
    /\ calc' = [kind |-> "collision", done |-> "isCollision", a |-> calc.a, b |-> calc.b,
                ab |-> IsCollision(calc.a, calc.b),
                ba |-> IsCollision(calc.b, calc.a)]
    /\ Alone

\* One key-down on the Player at rest
Press(key) ==
    /\ calc.kind = "player"
    /\ calc.done = ""
    /\ calc' = [calc EXCEPT !.player = HandleKeyDown(@, key), !.done = key]
    /\ Alone

CalcNext ==
    \/ Collide
    \/ \E key \in Keys : Press(key)

CalcSpec == CalcInit /\ [][CalcNext]_vars

---------------------------------------------------------------------------
(* The first level with a Player of smaller steps, which walks up the left  *)
(* edge of a wide window; in the window made narrow it then overlaps        *)
(* several Npcs at once.                                                    *)

HitsViewports == {<<40, 40>>, <<4, 40>>}

HitsKeys == {"up", "down"}

\* The step factor of this Player: closer to the tables' 1000 than
\* PlayerStepFactor
HitsStepFactor == 40

\* The Player o as its constructor leaves it for a descriptor with this
\* STEP_FACTOR
Stepping(o, step) ==
    IF o.class # "Player" THEN o
    ELSE [o EXCEPT !.stepFactor = step,
                   !.xVelocity = RDiv(o.scale.width, Int2R(step)),
                   !.yVelocity = RDiv(o.scale.height, Int2R(step))]

\* The first level as start() leaves it
HitsLevel(vp) == LoadLevel(<<>>, <<>>, 0, vp, TRUE)

HitsInit ==
    /\ started = TRUE
    /\ viewport = <<40, 40>>
    /\ random \in GameRandom
    /\ objs = [h \in 1..Len(HitsLevel(viewport).objs) |->
                  Stepping(HitsLevel(viewport).objs[h], HitsStepFactor)]
    /\ gameObjects = HitsLevel(viewport).gameObjects
    /\ continueLevel = TRUE
    /\ currentLevelIndex = 0
    /\ loopArmed = 1
    /\ updateLog = HitsLevel(viewport).updated
    /\ passLog = HitsLevel(viewport).passed
    /\ endLog = NoEnd
    /\ opLog = <<>>
    /\ pre = NoPre
    /\ panel = NoPanel
    /\ panelLog = <<>>
    /\ calc = NoCalc

HitsNext ==
    \/ Tick
    \/ \E key \in HitsKeys : KeyDown(key)
    \/ \E key \in HitsKeys : KeyUp(key)
    \/ \E vp \in HitsViewports : ResizeEvent(vp)

HitsSpec == HitsInit /\ [][HitsNext]_vars

---------------------------------------------------------------------------
(* The same level and Player, walking anywhere in the wide window, which   *)
(* is then made narrower than the Player's place in it allows.              *)

WalkViewports == {<<40, 40>>, <<16, 40>>}

\* The keys that walk the Player from its corner towards the Npcs
WalkKeys == {"up", "right"}

WalkNext ==
    \/ Tick
    \/ \E key \in WalkKeys : KeyDown(key)
    \/ \E key \in WalkKeys : KeyUp(key)
    \/ \E vp \in WalkViewports : ResizeEvent(vp)

WalkSpec == HitsInit /\ [][WalkNext]_vars

---------------------------------------------------------------------------
(* A level whose table gives its Player and its Npc no INIT_POSITION.      *)

\* The descriptor without its INIT_POSITION
Unplaced(data) == [f \in DOMAIN data \ {"INIT_POSITION"} |-> data[f]]

\* The table of such a level: the background, the Player and the first Npc
\* of the first level
UnplacedObjects(vp) ==
    << LevelObjects(0, vp)[1],
       Unplaced([LevelObjects(0, vp)[2] EXCEPT !.STEP_FACTOR = HitsStepFactor]),
       Unplaced(LevelObjects(0, vp)[3]) >>

\* The level as loadLevelObjects leaves it
ShareLevel(vp) ==
    FirstLoop(LoadLevelObjects(<<>>, <<>>, UnplacedObjects(vp), 1, vp, 0), vp)

ShareInit ==
    /\ started = TRUE
    /\ viewport = <<40, 40>>
    /\ random \in GameRandom
    /\ objs = ShareLevel(viewport).objs
    /\ gameObjects = ShareLevel(viewport).gameObjects
    /\ continueLevel = TRUE
    /\ currentLevelIndex = 0
    /\ loopArmed = 1
    /\ updateLog = ShareLevel(viewport).updated
    /\ passLog = ShareLevel(viewport).passed
    /\ endLog = NoEnd
    /\ opLog = <<>>
    /\ pre = NoPre
    /\ panel = NoPanel
    /\ panelLog = <<>>
    /\ calc = NoCalc

\* The key that walks the Player away from the top left corner
ShareKeys == {"right"}

ShareNext ==
    \/ Tick
    \/ \E key \in ShareKeys : KeyDown(key)
    \/ \E key \in ShareKeys : KeyUp(key)
    \/ \E vp \in WalkViewports : ResizeEvent(vp)

ShareSpec == ShareInit /\ [][ShareNext]_vars

---------------------------------------------------------------------------
(* The same level and Player with keys that are held: the browser repeats  *)
(* the keydown event of a held key, with no keyup in between.              *)

\* The keydown events of a held key that are delivered before its keyup
MaxHeld == 2

\* The velocities stay within MaxHeld steps per axis
WithinHeld(old, new) ==
    /\ (new.velocity.x # old.velocity.x) =>
           \E m \in -MaxHeld..MaxHeld : new.velocity.x = RMul(Int2R(m), new.xVelocity)
    /\ (new.velocity.y # old.velocity.y) =>
           \E m \in -MaxHeld..MaxHeld : new.velocity.y = RMul(Int2R(m), new.yVelocity)

\* keydown of a direction key, the first or a repeated one of a held key
KeyHeld(key) ==
    /\ started
    /\ (\A h \in 1..Len(objs) : WithinHeld(objs[h], KeyDownAll(objs, key)[h])) = TRUE
    /\ objs' = KeyDownAll(objs, key)
    /\ Interacted(NpcKeyDownAll(objs, gameObjects, panel, key, 1))
    /\ updateLog' = <<>>
    /\ passLog' = <<>>
    /\ endLog' = NoEnd
    /\ pre' = NoPre
    /\ UNCHANGED <<started, viewport, gameObjects, continueLevel, currentLevelIndex,
                   loopArmed, opLog, random, calc>>

HeldNext ==
    \/ Tick
    \/ \E key \in HitsKeys : KeyHeld(key)
    \/ \E key \in HitsKeys : KeyUp(key)

HeldSpec == HitsInit /\ [][HeldNext]_vars

---------------------------------------------------------------------------
(* Properties of the game (Spec)                                           *)

ViewWidth == Int2R(viewport[1])
ViewHeight == Int2R(viewport[2])

\* update() ran on the entity with handle h in the step that led here
Updated(h) == \E i \in 1..Len(updateLog) : updateLog[i] = h

InSeq(seq, x) == \E i \in 1..Len(seq) : seq[i] = x

Reverse(seq) == [i \in 1..Len(seq) |-> seq[Len(seq) + 1 - i]]

\* The entities whose update() is Character.update: Npc overrides it
RunsCharacterUpdate(h) == objs[h].class = "Player"

\* C1 as the specification states it: after Character.update() the position
\* satisfies 0 <= x <= viewport width - entity width and
\* 0 <= y <= viewport height - entity height.  It fails in a viewport
\* narrower than the entity.
C1_UpdateKeepsInsideCanvas ==
    \A h \in 1..Len(objs) :
        (Updated(h) /\ RunsCharacterUpdate(h)) =>
            /\ RLe(Zero, objs[h].position.x)
            /\ RLe(objs[h].position.x, RSub(ViewWidth, objs[h].width))
            /\ RLe(Zero, objs[h].position.y)
            /\ RLe(objs[h].position.y, RSub(ViewHeight, objs[h].height))

\* C1 amended: after Character.update() the position satisfies 0 <= x,
\* 0 <= y <= viewport height - entity height, and x <= viewport width -
\* entity width unless the entity is wider than the viewport, where x = 0.
C1_UpdateKeepsInsideOrAtLeftEdge ==
    \A h \in 1..Len(objs) :
        (Updated(h) /\ RunsCharacterUpdate(h)) =>
            /\ RLe(Zero, objs[h].position.x)
            /\ \/ RLe(objs[h].position.x, RSub(ViewWidth, objs[h].width))
               \/ (RGt(objs[h].width, ViewWidth) /\ objs[h].position.x = Zero)
            /\ RLe(Zero, objs[h].position.y)
            /\ RLe(objs[h].position.y, RSub(ViewHeight, objs[h].height))

\* An update has stopped a moving player at the right edge of the canvas
C1_StoppedAtRightEdge ==
    \E h \in 1..Len(objs) :
        /\ Updated(h) /\ RunsCharacterUpdate(h)
        /\ RGt(objs[h].position.x, Zero)
        /\ objs[h].position.x = RSub(ViewWidth, objs[h].width)
        /\ objs[h].velocity.x = Zero

\* C2: when the exit key ends a level that is not the last, the next level
\* is loaded into a fresh registry: it holds one entity per entry of the
\* next level's table, in the table's order, each built for that level, and
\* no entity of the level that ended.
C2_NextLevelInFreshRegistry ==
    (endLog.ended /\ endLog.index < NumLevels) =>
        /\ currentLevelIndex = endLog.from + 1
        /\ Len(gameObjects) = Len(LevelObjects(currentLevelIndex, viewport))
        /\ \A i \in 1..Len(gameObjects) :
              /\ objs[gameObjects[i]].id = LevelObjects(currentLevelIndex, viewport)[i].id
              /\ objs[gameObjects[i]].class =
                     LevelObjects(currentLevelIndex, viewport)[i].class
              /\ objs[gameObjects[i]].level = currentLevelIndex
              /\ ~InSeq(endLog.before, gameObjects[i])
              /\ \A j \in 1..Len(gameObjects) : j # i => gameObjects[j] # gameObjects[i]

\* The first level has ended and the second one is loaded
C2_SecondLevelLoaded ==
    /\ endLog.ended
    /\ endLog.from = 0
    /\ Len(endLog.before) = Len(LevelObjects(0, viewport))
    /\ loopArmed > 0
    /\ gameObjects # <<>>

\* C3: a tick that finds the continue flag false calls destroy() once on
\* every entity of the registry, last inserted first; the level-end alert
\* is shown once; and before the next level is loaded the registry is empty
\* and the level index has gone up by one.
C3_TearDownReverseOnce ==
    endLog.ended =>
        /\ endLog.destroyed = Reverse(endLog.before)
        /\ \A i \in 1..Len(endLog.before) : ~objs[endLog.before[i]].attached
        /\ Len(endLog.alerts) = 1
        /\ endLog.left = <<>>
        /\ endLog.index = endLog.from + 1

\* A level of several entities has been torn down
C3_SeveralTornDown ==
    /\ endLog.ended
    /\ Len(endLog.destroyed) > 2
    /\ endLog.alerts = <<"Level ended.">>

C5_ExitTakesEffectAtNextTick ==
    [][ /\ (continueLevel /\ ~continueLevel') =>
              /\ objs' = objs
              /\ gameObjects' = gameObjects
              /\ currentLevelIndex' = currentLevelIndex
              /\ loopArmed' = loopArmed
              /\ updateLog' = <<>>
        /\ (loopArmed > 0 /\ ~continueLevel) =>
              /\ \A i \in 1..Len(updateLog') :
                    objs'[updateLog'[i]].level # currentLevelIndex
              /\ (updateLog' # <<>> \/ gameObjects' # gameObjects) =>
                    (endLog'.ended /\ endLog'.from = currentLevelIndex)
      ]_vars

\* The exit key has been pressed in the second level, whose tick is pending
C5_ExitPendingInSecondLevel ==
    /\ loopArmed > 0
    /\ ~continueLevel
    /\ currentLevelIndex = 1
    /\ gameObjects # <<>>

\* C10: between events every Character in the registry has a recorded scale
\* equal to the viewport and a size equal to the viewport height divided by
\* its scale factor.
C10_NoStaleSize ==
    \A i \in 1..Len(gameObjects) :
        objs[gameObjects[i]].class # "Background" =>
            /\ objs[gameObjects[i]].scale = [width |-> ViewWidth, height |-> ViewHeight]
            /\ objs[gameObjects[i]].size =
                   RDiv(ViewHeight, Int2R(objs[gameObjects[i]].scaleFactor))

\* A resize event has changed the viewport under a loaded level
C10_ResizedUnderALevel ==
    /\ pre.viewport \notin {<<0, 0>>, viewport}
    /\ Len(gameObjects) > 1

---------------------------------------------------------------------------
(* Properties of the methods (OpsSpec)                                     *)

LastOp == opLog[Len(opLog)]

\* A Player that is on the page
LivePlayer(h) == objs[h].class = "Player" /\ objs[h].attached

\* The change of velocity one key-down makes: one step on the key's axis
KeyStep(o, key) ==
    IF key = "up" THEN [x |-> Zero, y |-> RNeg(o.yVelocity)]
    ELSE IF key = "down" THEN [x |-> Zero, y |-> o.yVelocity]
    ELSE IF key = "left" THEN [x |-> RNeg(o.xVelocity), y |-> Zero]
    ELSE [x |-> o.xVelocity, y |-> Zero]

KeyAxisIsX(key) == key \in {"left", "right"}

\* C6: from rest, key-down up then key-up up leaves y-velocity 0; key-down
\* up, key-down left, key-up up leaves x-velocity at minus the x step and
\* y-velocity 0; a key-down adds one step on its own axis only and a key-up
\* zeroes its own axis only.
C6_KeysCompose ==
    \A h \in 1..Len(objs) :
        LivePlayer(h) =>
            /\ ( /\ Len(opLog) = 2
                 /\ opLog[1].op = "keydown" /\ opLog[1].key = "up"
                 /\ opLog[2].op = "keyup" /\ opLog[2].key = "up" )
               => objs[h].velocity = [x |-> Zero, y |-> Zero]
            /\ ( /\ Len(opLog) = 3
                 /\ opLog[1].op = "keydown" /\ opLog[1].key = "up"
                 /\ opLog[2].op = "keydown" /\ opLog[2].key = "left"
                 /\ opLog[3].op = "keyup" /\ opLog[3].key = "up" )
               => objs[h].velocity = [x |-> RNeg(objs[h].xVelocity), y |-> Zero]
            /\ (Len(opLog) > 0 /\ LastOp.op = "keydown")
               => objs[h].velocity =
                     [x |-> RAdd(pre.objs[h].velocity.x, KeyStep(objs[h], LastOp.key).x),
                      y |-> RAdd(pre.objs[h].velocity.y, KeyStep(objs[h], LastOp.key).y)]
            /\ (Len(opLog) > 0 /\ LastOp.op = "keyup")
               => objs[h].velocity =
                     [x |-> IF KeyAxisIsX(LastOp.key) THEN Zero ELSE pre.objs[h].velocity.x,
                      y |-> IF KeyAxisIsX(LastOp.key) THEN pre.objs[h].velocity.y ELSE Zero]

\* Up and left were pressed and up released, the player still moving left
C6_UpLeftThenUpReleased ==
    /\ Len(opLog) = 3
    /\ opLog[1].op = "keydown" /\ opLog[1].key = "up"
    /\ opLog[2].op = "keydown" /\ opLog[2].key = "left"
    /\ opLog[3].op = "keyup" /\ opLog[3].key = "up"
    /\ \E h \in 1..Len(objs) : LivePlayer(h) /\ RLt(objs[h].velocity.x, Zero)

\* The registry without the handle h
Without(reg, h) == SelectSeq(reg, LAMBDA x : x # h)

\* C7: destroy() on an entity of the registry removes that entity alone,
\* the others keeping their order and their state, and takes its canvas off
\* the page; destroy() on an entity no longer in the registry throws
\* nothing and changes nothing.
C7_DestroyRemovesItselfOnly ==
    (Len(opLog) > 0 /\ LastOp.op = "destroy") =>
        /\ ~LastOp.threw
        /\ gameObjects = Without(pre.gameObjects, LastOp.h)
        /\ \A k \in 1..Len(objs) : k # LastOp.h => objs[k] = pre.objs[k]
        /\ ~objs[LastOp.h].attached
        /\ ~InSeq(pre.gameObjects, LastOp.h) =>
              (gameObjects = pre.gameObjects /\ objs = pre.objs)

\* destroy() was called twice in a row on the same Character, with other
\* entities still in the registry
C7_DestroyedTwice ==
    /\ Len(opLog) > 1
    /\ LastOp.op = "destroy"
    /\ opLog[Len(opLog) - 1].op = "destroy"
    /\ opLog[Len(opLog) - 1].h = LastOp.h
    /\ objs[LastOp.h].canvas
    /\ Len(gameObjects) > 2

ResizedTwice ==
    /\ Len(opLog) > 1
    /\ LastOp.op = "resize"
    /\ opLog[Len(opLog) - 1].op = "resize"
    /\ opLog[Len(opLog) - 1].vp = LastOp.vp

---------------------------------------------------------------------------
(* Properties of the functions (CalcSpec)                                  *)

\* The step of a key on its axis, signed: viewport width / step factor on x,
\* viewport height / step factor on y
StepOf(vp, stepFactor, key) ==
    IF key = "up" THEN [x |-> Zero, y |-> Rat(-vp[2], stepFactor)]
    ELSE IF key = "down" THEN [x |-> Zero, y |-> Rat(vp[2], stepFactor)]
    ELSE IF key = "left" THEN [x |-> Rat(-vp[1], stepFactor), y |-> Zero]
    ELSE [x |-> Rat(vp[1], stepFactor), y |-> Zero]

\* C11: a Player's size is the viewport height / its scale factor, its steps
\* are viewport width / step factor on x and viewport height / step factor
\* on y (in a 1000x800 viewport a scale factor 5 gives size 160 and a step
\* factor 1000 gives the y step 4/5), and one key-down from rest leaves the
\* velocity at exactly one step on the key's axis and zero on the other.
C11_StepIsViewportOverStepFactor ==
    calc.kind = "player" =>
        /\ calc.player.size = Rat(calc.vp[2], calc.scaleFactor)
        /\ calc.player.xVelocity = Rat(calc.vp[1], calc.stepFactor)
        /\ calc.player.yVelocity = Rat(calc.vp[2], calc.stepFactor)
        /\ (calc.vp = <<1000, 800>> /\ calc.scaleFactor = 5) =>
               calc.player.size = <<160, 1>>
        /\ (calc.vp = <<1000, 800>> /\ calc.stepFactor = 1000) =>
               calc.player.yVelocity = <<4, 5>>
        /\ calc.done = "" => calc.player.velocity = [x |-> Zero, y |-> Zero]
        /\ calc.done # "" =>
               calc.player.velocity = StepOf(calc.vp, calc.stepFactor, calc.done)

\* Down was pressed once on a Player of scale factor 5 and step factor 1000
\* in the 1000x800 viewport
C11_DownPressedInScenario ==
    /\ calc.kind = "player"
    /\ calc.vp = <<1000, 800>>
    /\ calc.scaleFactor = 5
    /\ calc.stepFactor = 1000
    /\ calc.done = "down"
    /\ calc.player.velocity.y = <<4, 5>>

\* The inset rectangle of a canvas: left and right moved in by width times
\* the width percentage, top lowered by height times the height percentage,
\* bottom as it is
Inset(c) ==
    [left |-> RAdd(c.rect.left,
                   RMul(RSub(c.rect.right, c.rect.left), c.hitbox.widthPercentage)),
     right |-> RSub(c.rect.right,
                    RMul(RSub(c.rect.right, c.rect.left), c.hitbox.widthPercentage)),
     top |-> RAdd(c.rect.top,
                  RMul(RSub(c.rect.bottom, c.rect.top), c.hitbox.heightPercentage)),
     bottom |-> c.rect.bottom]

\* Two rectangles overlap on both axes, edges apart
Overlap(r, q) ==
    /\ RLt(r.left, q.right) /\ RLt(q.left, r.right)
    /\ RLt(r.top, q.bottom) /\ RLt(q.top, r.bottom)

\* Two rectangles meet along an edge
EdgeToEdge(r, q) ==
    \/ r.right = q.left \/ q.right = r.left
    \/ r.bottom = q.top \/ q.bottom = r.top

\* C12: isCollision reports a hit exactly when the two inset rectangles
\* overlap with strict inequalities on both axes; inset rectangles that only
\* meet along an edge are no hit; [0,0,50,50] and [40,40,90,90] without
\* inset are a hit.
C12_HitIffInsetRectanglesOverlap ==
    calc.done = "isCollision" =>
        /\ calc.ab.hit = Overlap(Inset(calc.a), Inset(calc.b))
        /\ EdgeToEdge(Inset(calc.a), Inset(calc.b)) => ~calc.ab.hit
        /\ ( /\ calc.a.hitbox = NoHitbox /\ calc.b.hitbox = NoHitbox
             /\ calc.a.rect = Rect(<<0, 1>>, <<0, 1>>, <<50, 1>>, <<50, 1>>)
             /\ calc.b.rect = Rect(<<40, 1>>, <<40, 1>>, <<90, 1>>, <<90, 1>>) )
           => calc.ab.hit

\* isCollision ran on two canvases whose inset rectangles meet along a side
\* edge, level with each other, one of them with an inset
C12_InsetsMeetAlongAnEdge ==
    /\ calc.done = "isCollision"
    /\ calc.a.hitbox # NoHitbox
    /\ Inset(calc.a).right = Inset(calc.b).left
    /\ RLt(Inset(calc.a).top, Inset(calc.b).bottom)
    /\ RLt(Inset(calc.b).top, Inset(calc.a).bottom)
    /\ ~calc.ab.hit

\* C13: for two entities without hitbox inset and with unchanged rectangles,
\* the hit flag of a.isCollision(b) equals the hit flag of b.isCollision(a).
C13_HitIsSymmetric ==
    ( /\ calc.done = "isCollision"
      /\ calc.a.hitbox = NoHitbox
      /\ calc.b.hitbox = NoHitbox )
    => calc.ab.hit = calc.ba.hit

\* isCollision ran both ways on canvases of different sizes without inset,
\* the second one straight below the first
C13_BothWaysOneBelowTheOther ==
    /\ calc.done = "isCollision"
    /\ calc.a.hitbox = NoHitbox
    /\ calc.b.hitbox = NoHitbox
    /\ calc.b.rect.top = calc.a.rect.bottom
    /\ RLt(calc.b.rect.left, calc.a.rect.right)
    /\ RLt(calc.a.rect.left, calc.b.rect.right)
    /\ RectWidth(calc.b.rect) # RectWidth(calc.a.rect)
    /\ ~calc.ab.hit /\ ~calc.ba.hit

---------------------------------------------------------------------------
(* Properties of the panel (PromptSpec, PanelSpec) *)

\* The call of openPromptPanel just made found a panel open
OpenedWhileOpen == opLog # <<>> /\ LastOp.op = "open" /\ pre.panel.isOpen

\* C14: at most one interaction panel is open at any time: there is at most
\* one dim overlay, Prompt.isOpen is true exactly when that overlay exists,
\* and openPromptPanel called while a panel is open first closes the previous
\* one and then shows the new one, under one overlay.
C14_AtMostOnePanel ==
    /\ panel.dims <= 1
    /\ panel.isOpen <=> panel.dims = 1
    /\ OpenedWhileOpen =>
          /\ panelLog = <<PanelOp("close", 0, <<>>), PanelOp("open", LastOp.h, <<>>)>>
          /\ panel.currentNpc = LastOp.h
          /\ panel.isOpen

\* openPromptPanel was called for one Npc while the panel of another was open
C14_OpenedOverAnotherNpc ==
    /\ OpenedWhileOpen
    /\ pre.panel.currentNpc # 0
    /\ pre.panel.currentNpc # LastOp.h
    /\ panel.dims = 1

\* The step just taken showed the panel, and the handle of the Npc it showed
\* it for
PanelOpened == panelLog # <<>> /\ panelLog[Len(panelLog)].op = "open"
OpenedFor == panelLog[Len(panelLog)].npc

\* Some entity of the registry hit the entity of this id in its latest
\* collisionChecks
HitsNow(id) ==
    \E g \in 1..Len(gameObjects) :
        \E i \in 1..Len(objs[gameObjects[g]].hits) :
            objs[gameObjects[g]].hits[i].id = id

\* Some entity of the registry has the id in its collisionEvents
InTouchList(id) == Len(Touching(objs, gameObjects, id)) > 0

\* C15: an interact key press opens the panel for a stationary entity only
\* if some movable entity's hitbox overlapped that entity's at the movable
\* entity's most recent update; with no such collision it opens nothing.
C15_OpensOnlyOnActiveCollision ==
    PanelOpened => HitsNow(objs[OpenedFor].id)

\* The panel was opened for an Npc that the latest checks of no entity hit,
\* while they hit another one
C15_OpenedForAnEntityNoLongerHit ==
    /\ PanelOpened
    /\ ~HitsNow(objs[OpenedFor].id)
    /\ InTouchList(objs[OpenedFor].id)
    /\ \E h \in 1..Len(objs) : objs[h].class = "Npc" /\ HitsNow(objs[h].id)

\* A Player of the registry has the id in its collisionEvents
PlayerTouches(id) ==
    \E g \in 1..Len(gameObjects) :
        /\ objs[gameObjects[g]].class = "Player"
        /\ Includes(objs[gameObjects[g]].collisionEvents, id)

\* The step shows the panel: it was closed and is open, or a handler of the
\* step opened it
Opens == (panel'.isOpen /\ ~panel.isOpen) \/ PanelOpened'

\* C16: the panel is opened only inside a key-down handler of 'e' or 'u' and
\* only while the Npc's id is in the touch list of a Player of the registry;
\* a step that runs update() calls (a tick, the first pass of a level) never
\* opens it or changes it; and a key-down that finds the panel
\* open (the key held or pressed again, after any number of ticks) neither
\* opens it again nor switches it to another Npc.
C16_OpenedOnlyByInteractKeyWhileTouching ==
    [][/\ Opens =>
            /\ (\E key \in InteractKeys : KeyDown(key)) = TRUE
            /\ ~panel.isOpen
            /\ panelLog' = <<PanelOp("open", panel'.currentNpc, <<>>)>>
            /\ PlayerTouches(objs[panel'.currentNpc].id)
       /\ updateLog' # <<>> => panel' = panel /\ panelLog' = <<>>
       /\ (panel.isOpen /\ \E key \in Keys \cup InteractKeys : KeyDown(key))
            => panel' = panel /\ panelLog' = <<>>
      ]_vars

\* An interact key has just opened the panel for an Npc the Player hits
C16_OpenedByInteractKey ==
    /\ PanelOpened
    /\ panel.isOpen
    /\ panel.currentNpc = OpenedFor
    /\ HitsNow(objs[OpenedFor].id)
    /\ PlayerTouches(objs[OpenedFor].id)

---------------------------------------------------------------------------
(* Properties of the collisions in the game (Spec, PanelSpec) *)

\* The ids of the entity's latest hits and of its touch list
HitIds(o) == {o.hits[i].id : i \in 1..Len(o.hits)}
TouchIds(o) == {o.collisionEvents[i] : i \in 1..Len(o.collisionEvents)}

\* The entity o, drawn where it is now, hits the entity of this id
OverlapsNow(o, id) ==
    \E g \in 1..Len(gameObjects) :
        /\ objs[gameObjects[g]].id = id
        /\ objs[gameObjects[g]].canvas
        /\ IsCollision(CharacterDraw(o), objs[gameObjects[g]]).hit

\* C17: after a movable entity's update() its touch list holds exactly the
\* ids of the entities it hits: no id of an entity it no longer overlaps
\* remains in the list, and no id appears twice.
C17_TouchListIsTheCurrentHits ==
    \A h \in 1..Len(objs) :
        (Updated(h) /\ RunsCharacterUpdate(h) /\ objs[h].attached) =>
            /\ TouchIds(objs[h]) = HitIds(objs[h])
            /\ Cardinality(TouchIds(objs[h])) = Len(objs[h].collisionEvents)

\* An update() has left in the touch list the id of an entity that its
\* checks did not hit and that the entity, where it is now, does not overlap
C17_StaleIdAfterUpdate ==
    \E h \in 1..Len(objs) :
        /\ Updated(h) /\ RunsCharacterUpdate(h) /\ objs[h].attached
        /\ \E id \in TouchIds(objs[h]) :
              /\ id \notin HitIds(objs[h])
              /\ ~OverlapsNow(objs[h], id)

---------------------------------------------------------------------------
(* Properties of the panel's content (PromptSpec) *)

\* openPromptPanel was the call just made, on the Npc of handle LastOp.h
JustOpened == opLog # <<>> /\ LastOp.op = "open"

\* The panel has one input per question of the Npc, in the order of the
\* Npc's questions
RowsFollow(p, npc) ==
    /\ Len(p.rows) = Len(npc.questions)
    /\ \A i \in 1..Len(p.rows) :
          /\ p.rows[i].question = npc.questions[i]
          /\ p.rows[i].questionIndex = i - 1

\* C18: openPromptPanel(npc) replaces what the panel displayed with the
\* Npc's quiz title and one answer input per question, in the order of the
\* Npc's shuffled question list.
C18_PanelShowsQuizTitleAndQuestions ==
    JustOpened =>
        /\ panel.title = objs[LastOp.h].quiz
        /\ RowsFollow(panel, objs[LastOp.h])

\* openPromptPanel, called on an Npc whose quiz has a title and whose
\* questions the constructor shuffled out of the table's order, has replaced
\* the content of another Npc's panel: the inputs are the Npc's, the title
\* is the default one
C18_DefaultTitleOverShuffledQuestions ==
    /\ JustOpened
    /\ pre.panel.isOpen
    /\ pre.panel.currentNpc # LastOp.h
    /\ objs[LastOp.h].quiz = "Linux Command Quiz"
    /\ objs[LastOp.h].questions[1] = <<"Tux", 2>>
    /\ RowsFollow(panel, objs[LastOp.h])
    /\ panel.title = "Questions"

---------------------------------------------------------------------------
(* Properties of Submit (PanelSpec) *)

\* The step that led here was a click on Submit
Submitted == panelLog # <<>> /\ panelLog[1].op = "submit"

\* C19: submitting an open panel closes it (isOpen false, the overlay
\* removed) whatever the answers are, with no validation, and changes nothing
\* else: the registry, every entity (position, velocity, touch list), the
\* level index and the continue flag are as before.
C19_SubmitOnlyClosesThePanel ==
    [][/\ Submitted' =>
            /\ panel.isOpen /\ panel.dims = 1
            /\ ~panel'.isOpen /\ panel'.dims = 0 /\ ~panel'.display
            /\ panelLog'[1].answers \in Answers(panel)
            /\ UNCHANGED <<objs, gameObjects, currentLevelIndex, continueLevel,
                           viewport>>
       /\ (panel.isOpen /\ panel.submit) =>
            \A answers \in Answers(panel) :
                /\ ~HandleSubmit(panel, answers).isOpen
                /\ HandleSubmit(panel, answers).dims = 0
      ]_vars

\* A panel with an input left empty has just been submitted and is closed,
\* while the Player is moving
C19_SubmittedWithAnEmptyAnswer ==
    /\ Submitted
    /\ ~panel.isOpen
    /\ panel.dims = 0
    /\ \E i \in 1..Len(panelLog[1].answers) : panelLog[1].answers[i].answer = ""
    /\ \E i \in 1..Len(panelLog[1].answers) : panelLog[1].answers[i].answer = "1"
    /\ \E h \in 1..Len(objs) :
          /\ objs[h].class = "Player"
          /\ objs[h].velocity # [x |-> Zero, y |-> Zero]
          /\ objs[h].collisionEvents # <<>>

---------------------------------------------------------------------------
(* Properties of the velocity under a hit (Spec) *)

\* The hit h, found while the entity had the velocity h.velocity, is on a
\* side the entity was moving into: it stands over the top edge of the other
\* and moves down, under its bottom edge and moves up, and likewise sideways
BlockedY(h) ==
    \/ h.touch.top /\ RGt(h.velocity.y, Zero)
    \/ h.touch.bottom /\ RLt(h.velocity.y, Zero)
BlockedX(h) ==
    \/ h.touch.right /\ RLt(h.velocity.x, Zero)
    \/ h.touch.left /\ RGt(h.velocity.x, Zero)

\* C20 as stated: whenever an update() finds a hit with a side touch flag
\* set on an axis, the velocity the update() integrates is zero on that axis.
C20_VelocityZeroOnFlaggedAxis ==
    \A i \in 1..Len(passLog) :
        \A k \in 1..Len(passLog[i].hits) :
            /\ (passLog[i].hits[k].touch.top \/ passLog[i].hits[k].touch.bottom)
                  => passLog[i].velocity.y = Zero
            /\ (passLog[i].hits[k].touch.left \/ passLog[i].hits[k].touch.right)
                  => passLog[i].velocity.x = Zero

\* C20, amended: whenever an update() finds a hit on a side the entity is
\* moving into, the velocity it integrates is zero on that axis; the
\* integrated velocity never points into a flagged side; and on an axis on
\* which no hit of the pass is on a side the entity moves into, the velocity
\* is integrated as it was.
C20_VelocityZeroIntoATouchedSide ==
    \A i \in 1..Len(passLog) :
        /\ \A k \in 1..Len(passLog[i].hits) :
              /\ BlockedY(passLog[i].hits[k]) => passLog[i].velocity.y = Zero
              /\ BlockedX(passLog[i].hits[k]) => passLog[i].velocity.x = Zero
              /\ passLog[i].hits[k].touch.top => RLe(passLog[i].velocity.y, Zero)
              /\ passLog[i].hits[k].touch.bottom => RLe(Zero, passLog[i].velocity.y)
              /\ passLog[i].hits[k].touch.right => RLe(Zero, passLog[i].velocity.x)
              /\ passLog[i].hits[k].touch.left => RLe(passLog[i].velocity.x, Zero)
        /\ (passLog[i].hits # <<>>
              /\ \A k \in 1..Len(passLog[i].hits) : ~BlockedY(passLog[i].hits[k]))
              => passLog[i].velocity.y = passLog[i].hits[1].velocity.y
        /\ (passLog[i].hits # <<>>
              /\ \A k \in 1..Len(passLog[i].hits) : ~BlockedX(passLog[i].hits[k]))
              => passLog[i].velocity.x = passLog[i].hits[1].velocity.x

\* An update() found a hit on a side the entity was moving into and
\* integrated no velocity on that axis
C20_StoppedByAHit ==
    \E i \in 1..Len(passLog) :
        \E k \in 1..Len(passLog[i].hits) :
            /\ BlockedY(passLog[i].hits[k])
            /\ passLog[i].velocity.y = Zero
            /\ objs[passLog[i].h].velocity.y = Zero

---------------------------------------------------------------------------
(* Properties of the game loop (Spec) *)

\* The step is a tick of the running level: update() calls were made and no
\* level was loaded
TickStep == started /\ updateLog' # <<>> /\ currentLevelIndex' = currentLevelIndex

\* The velocity w is the velocity v with no, one or both components zeroed
StoppedOrKept(v, w) == (w.x = v.x \/ w.x = Zero) /\ (w.y = v.y \/ w.y = Zero)

\* C21: each tick of a running level updates every entity of the registry
\* exactly once, in insertion order; it runs as one step in which no key or
\* resize handler has acted (the window size, the registry and the entities
\* outside it are as before, and a velocity changes only by being stopped);
\* and it consults the continue flag once: the flag is true before the pass
\* and after it, and a scheduled call that finds it false makes no update()
\* call on the level.
C21_TickUpdatesEveryEntityOnce ==
    [][/\ TickStep =>
            /\ continueLevel /\ continueLevel'
            /\ loopArmed > 0
            /\ updateLog' = gameObjects
            /\ gameObjects' = gameObjects
            /\ viewport' = viewport
            /\ Len(objs') = Len(objs)
            /\ \A h \in 1..Len(objs) :
                  /\ ~InSeq(gameObjects, h) => objs'[h] = objs[h]
                  /\ StoppedOrKept(objs[h].velocity, objs'[h].velocity)
                  /\ objs'[h].scale = objs[h].scale
       /\ (started /\ ~continueLevel /\ currentLevelIndex' = currentLevelIndex)
            => updateLog' = <<>>
      ]_vars

\* A tick has just updated the five entities of the first level, the Player
\* moving
C21_TickedWithThePlayerMoving ==
    /\ updateLog = gameObjects
    /\ Len(updateLog) = 5
    /\ endLog = NoEnd
    /\ \E i \in 1..Len(passLog) : passLog[i].velocity # [x |-> Zero, y |-> Zero]

---------------------------------------------------------------------------
(* Properties of the Npcs (PanelSpec) *)

\* The descriptor of the level tables the entity o was built from
Descriptor(o) ==
    CHOOSE data \in {LevelObjects(o.level, viewport)[i] :
                        i \in 1..Len(LevelObjects(o.level, viewport))} :
        data.id = o.id

\* C22: an Npc never moves: over any sequence of ticks and key events, with
\* no resize, its position is the position its constructor gave it, its
\* velocity is zero, and it has run no collision checks (no hit recorded, an
\* empty touch list, every movement permitted).
C22_NpcStaysWhereItWasBuilt ==
    \A h \in 1..Len(objs) :
        (objs[h].class = "Npc" /\ objs[h].attached) =>
            /\ objs[h].position =
                  CharacterResize(CharacterNew(Descriptor(objs[h]), viewport,
                                               objs[h].level), viewport).position
            /\ objs[h].velocity = [x |-> Zero, y |-> Zero]
            /\ objs[h].hits = <<>>
            /\ objs[h].collisionEvents = <<>>
            /\ objs[h].movement = AllMovement

\* A tick has just run in which the moving Player hit an Npc, and every Npc
\* was updated
C22_NpcHitByTheMovingPlayer ==
    /\ \E i \in 1..Len(passLog) :
          /\ passLog[i].hits # <<>>
          /\ passLog[i].velocity # [x |-> Zero, y |-> Zero]
    /\ \E h \in 1..Len(objs) : objs[h].class = "Npc" /\ Updated(h)

\* How many times x occurs in the sequence
Count(seq, x) == Cardinality({i \in 1..Len(seq) : seq[i] = x})

\* The two sequences have the same length and the same elements, each as
\* many times
IsPermutation(a, b) ==
    /\ Len(a) = Len(b)
    /\ \A i \in 1..Len(a) : Count(a, a[i]) = Count(b, a[i])

C26_OneLoopAtATime ==
    [][/\ loopArmed' <= 1
       /\ (started' /\ currentLevelIndex' < NumLevels) => loopArmed' = 1
       /\ currentLevelIndex' >= NumLevels => loopArmed' = 0
       /\ (started /\ updateLog' # <<>>) => loopArmed = 1
       /\ currentLevelIndex' # currentLevelIndex => loopArmed = 1
       /\ (started /\ updateLog' = <<>> /\ currentLevelIndex' = currentLevelIndex) =>
              loopArmed' = loopArmed
      ]_vars

\* The second level is running: its loop has made a pass after the pass of
\* its loading, and one call is scheduled
C26_SecondLevelLooping ==
    /\ currentLevelIndex = 1
    /\ loopArmed = 1
    /\ updateLog # <<>>
    /\ endLog = NoEnd

\* C27: exit presses end one level at a time: a step raises the level index
\* by one or leaves it, raises it only with a press pending, and a press
\* itself leaves the index alone; the press that ended a level does not end
\* the next: every level loaded, by start() or by a level end, has made a
\* full update pass over its registry and has no press pending.
C27_ExitEndsOneLevel ==
    [][/\ currentLevelIndex' \in {currentLevelIndex, currentLevelIndex + 1}
       /\ currentLevelIndex' # currentLevelIndex => ~continueLevel
       /\ (continueLevel /\ ~continueLevel') => currentLevelIndex' = currentLevelIndex
       /\ ((currentLevelIndex' # currentLevelIndex \/ started' # started)
             /\ currentLevelIndex' < NumLevels) =>
              /\ continueLevel'
              /\ gameObjects' # <<>>
              /\ updateLog' = gameObjects'
      ]_vars

\* An exit press has ended the first level, and the second is loaded with
\* its first pass made and no press pending
C27_SecondLevelAfterExit ==
    /\ endLog.ended
    /\ endLog.from = 0
    /\ currentLevelIndex = 1
    /\ continueLevel
    /\ updateLog = gameObjects
    /\ gameObjects # <<>>

---------------------------------------------------------------------------
(* Properties of several hits in one pass (HitsSpec) *)

\* The movement permissions one hit leaves, from the touch points it gave
\* the entity
PermittedBy(touch) ==
    [up |-> ~touch.bottom, down |-> ~touch.top,
     left |-> ~touch.right, right |-> ~touch.left]

\* The entity of entry i of the pass hit several entities
HitSeveral(i) == Len(passLog[i].hits) >= 2

\* C30: an entity that hit several entities in one update has, after the
\* pass, the movement permissions its last hit in registry order leaves,
\* alone: what earlier hits of that update took away is given back.
C30_LastHitSetsTheMovement ==
    \A i \in 1..Len(passLog) :
        HitSeveral(i) =>
            objs[passLog[i].h].movement =
                PermittedBy(passLog[i].hits[Len(passLog[i].hits)].touch)

\* The Player hit two Npcs in one update, and the first hit took away a
\* permission the last one leaves
C30_EarlierHitOverwritten ==
    \E i \in 1..Len(passLog) :
        /\ HitSeveral(i)
        /\ objs[passLog[i].h].class = "Player"
        /\ \E d \in {"up", "down", "left", "right"} :
              /\ ~PermittedBy(passLog[i].hits[1].touch)[d]
              /\ PermittedBy(passLog[i].hits[Len(passLog[i].hits)].touch)[d]
              /\ objs[passLog[i].h].movement[d]

\* Whenever a level is running the exit key is pressed, then or later
ExitPressedInEveryLevel ==
    (started /\ currentLevelIndex < NumLevels) ~> ~continueLevel

\* The levels are over: the index is past the last level and no gameLoop
\* call is scheduled
AllLevelsComplete == started /\ currentLevelIndex = NumLevels /\ loopArmed = 0

\* C29: if the exit key is pressed during every running level, and every
\* scheduled gameLoop call runs, the controller reaches AllLevelsComplete and
\* stays there; every level end raises the index by exactly one from 0, so
\* it is reached after exactly NumLevels level ends.
C29_ExitInEveryLevelCompletesTheGame ==
    /\ currentLevelIndex = 0
    /\ [][/\ endLog'.ended =>
                (endLog'.from = currentLevelIndex /\ currentLevelIndex' = currentLevelIndex + 1)
          /\ ~endLog'.ended => currentLevelIndex' = currentLevelIndex
         ]_vars
    /\ ExitPressedInEveryLevel => <>[]AllLevelsComplete

\* The end of the last level has just completed the game
C29_LastLevelJustEnded ==
    /\ AllLevelsComplete
    /\ endLog.ended
    /\ endLog.from = NumLevels - 1
    /\ endLog.alerts = <<"Game over. All levels completed.">>

---------------------------------------------------------------------------
(* Properties of the level index (PageSpec) *)

\* C28: the level index starts at 0, never decreases, changes only by +1
\* and only in a level end (the step that raises the alert) made with an
\* exit press pending, which the loading of the next level clears, and never
\* exceeds the number of levels; key events, resize events and panel actions
\* leave it alone.
C28_LevelIndexOnlyAdvancesAtLevelEnd ==
    /\ currentLevelIndex = 0
    /\ [][/\ currentLevelIndex' \in {currentLevelIndex, currentLevelIndex + 1}
          /\ currentLevelIndex' <= NumLevels
          /\ (currentLevelIndex' # currentLevelIndex /\ currentLevelIndex' < NumLevels) =>
                 continueLevel'
          /\ currentLevelIndex' # currentLevelIndex =>
                 /\ started /\ ~continueLevel
                 /\ endLog'.ended /\ endLog'.from = currentLevelIndex
          /\ ~endLog'.ended => currentLevelIndex' = currentLevelIndex
          /\ (panelLog' # <<>> \/ panel' # panel \/ viewport' # viewport) =>
                 currentLevelIndex' = currentLevelIndex
         ]_vars

\* The last level is over, after a resize and an opened panel
C28_AllLevelsOverOnTheResizedPage ==
    /\ currentLevelIndex = NumLevels
    /\ viewport = <<4, 40>>
    /\ panel # NoPanel

---------------------------------------------------------------------------
(* Properties of construction (NewSpec) *)

\* The last call was a constructor handed no descriptor or one without src
BuiltWithoutSprite ==
    /\ opLog # <<>>
    /\ opLog[Len(opLog)].op = "new"
    /\ opLog[Len(opLog)].key \in {"nosrc", "null"}

C25_BaseTypeIsAbstract ==
    opLog # <<>> =>
        /\ (opLog[Len(opLog)].op = "new" /\ opLog[Len(opLog)].key = "GameObject") =>
              /\ opLog[Len(opLog)].threw
              /\ objs = pre.objs
              /\ gameObjects = pre.gameObjects
        /\ opLog[Len(opLog)].op = "abstract" =>
              /\ opLog[Len(opLog)].threw
              /\ objs = pre.objs
              /\ gameObjects = pre.gameObjects

\* An entity of a type that overrides nothing was built first, and the last
\* of the calls made since is its inherited destroy(), beside a registry that
\* is not empty
C25_CalledAnInheritedMethod ==
    /\ Len(opLog) = MaxOps
    /\ opLog[1].op = "new" /\ opLog[1].key = "Subclass" /\ ~opLog[1].threw
    /\ opLog[Len(opLog)].op = "abstract"
    /\ opLog[Len(opLog)].key = "destroy"
    /\ objs[opLog[Len(opLog)].h].class = "Subclass"
    /\ gameObjects # <<>>

---------------------------------------------------------------------------
(* Properties of blocked movement (WalkSpec) *)

\* The entity of entry i of the pass of this step did not move into a side
\* one of its hits of that pass flagged
StayedOffFlaggedSides(i) ==
    \A k \in 1..Len(passLog'[i].hits) :
        /\ passLog'[i].hits[k].touch.top =>
              RLe(objs'[passLog'[i].h].position.y, objs[passLog'[i].h].position.y)
        /\ passLog'[i].hits[k].touch.bottom =>
              RLe(objs[passLog'[i].h].position.y, objs'[passLog'[i].h].position.y)
        /\ passLog'[i].hits[k].touch.left =>
              RLe(objs'[passLog'[i].h].position.x, objs[passLog'[i].h].position.x)
        /\ passLog'[i].hits[k].touch.right =>
              RLe(objs[passLog'[i].h].position.x, objs'[passLog'[i].h].position.x)

\* C31 as stated: in a tick in which an entity hits another and a side flag
\* of the hit blocks a direction (top blocks down, bottom blocks up, left
\* blocks right, right blocks left), the entity's position does not move in
\* that direction during the tick.
C31_NoMoveIntoAFlaggedSide ==
    [][TickStep => \A i \in 1..Len(passLog') : StayedOffFlaggedSides(i)]_vars

\* The velocity v has no component into a side the touch points flag
OffFlaggedSides(touch, v) ==
    /\ touch.top => RLe(v.y, Zero)
    /\ touch.bottom => RLe(Zero, v.y)
    /\ touch.left => RLe(v.x, Zero)
    /\ touch.right => RLe(Zero, v.x)

\* The entity now is where a boundary check of update() puts it: on an edge
\* of the window
OnTheEdgeX(o) == o.position.x = Zero \/ RAdd(o.position.x, o.width) = o.scale.width
OnTheEdgeY(o) == o.position.y = Zero \/ RAdd(o.position.y, o.height) = o.scale.height

\* The entity of entry i of the pass of this step integrated no velocity
\* into a side one of its hits flagged, and where it moved into such a side
\* all the same, a boundary check put it on the edge of the window
PushedOnlyByTheEdge(i) ==
    \A k \in 1..Len(passLog'[i].hits) :
        /\ OffFlaggedSides(passLog'[i].hits[k].touch, passLog'[i].velocity)
        /\ (/\ passLog'[i].hits[k].touch.top
            /\ RLt(objs[passLog'[i].h].position.y, objs'[passLog'[i].h].position.y))
              => OnTheEdgeY(objs'[passLog'[i].h])
        /\ (/\ passLog'[i].hits[k].touch.bottom
            /\ RLt(objs'[passLog'[i].h].position.y, objs[passLog'[i].h].position.y))
              => OnTheEdgeY(objs'[passLog'[i].h])
        /\ (/\ passLog'[i].hits[k].touch.left
            /\ RLt(objs[passLog'[i].h].position.x, objs'[passLog'[i].h].position.x))
              => OnTheEdgeX(objs'[passLog'[i].h])
        /\ (/\ passLog'[i].hits[k].touch.right
            /\ RLt(objs'[passLog'[i].h].position.x, objs[passLog'[i].h].position.x))
              => OnTheEdgeX(objs'[passLog'[i].h])

\* C31 amended: in a tick in which an entity hits another and a side flag of
\* the hit blocks a direction, the velocity the tick adds to the position
\* has no component in that direction, whatever keys were pressed between
\* ticks and whichever other entities it also hits; the position moves in
\* the blocked direction only where a boundary check of the same update()
\* moves it, onto the edge of the window (the entity lay outside the window
\* after a resize).
C31_NoVelocityIntoAFlaggedSide ==
    [][TickStep => \A i \in 1..Len(passLog') : PushedOnlyByTheEdge(i)]_vars

\* A tick has just found the Player touching an Npc with a side flagged,
\* integrated a velocity that is zero on that axis, and left the Player on
\* the right edge of the narrow window, left of where the hit found it
C31_PushedLeftIntoAFlaggedSide ==
    \E i \in 1..Len(passLog) : \E k \in 1..Len(passLog[i].hits) :
        /\ objs[passLog[i].h].class = "Player"
        /\ passLog[i].hits[k].touch.right
        /\ passLog[i].velocity.x = Zero
        /\ RLt(objs[passLog[i].h].position.x, passLog[i].hits[k].position.x)
        /\ RAdd(objs[passLog[i].h].position.x, objs[passLog[i].h].width)
               = objs[passLog[i].h].scale.width

---------------------------------------------------------------------------
(* Properties of the pairs that are no hit (WalkSpec) *)

\* The ids handleCollisionEvent pushed for these hits, in order
RECURSIVE PushedIds(_)
PushedIds(hits) ==
    IF hits = <<>> THEN <<>>
    ELSE IF hits[1].greeted THEN <<hits[1].id>> \o PushedIds(Tail(hits))
    ELSE PushedIds(Tail(hits))

\* The component now of a velocity is the one before, or zero on an axis on
\* which these hits flag a side
StoppedByAHit(before, now, hits, sides) ==
    \/ now = before
    \/ now = Zero /\ \E k \in 1..Len(hits) : \E s \in sides : hits[k].touch[s]

\* The entry p of the pass of this step, for an entity that was o before the
\* pass and is n after it: its touch list, its movement permissions and the
\* velocity it integrated are what its hits alone make them
MadeByHitsAlone(p, o, n) ==
    /\ n.collisionEvents = IF p.hits = <<>> THEN <<>>
                           ELSE o.collisionEvents \o PushedIds(p.hits)
    /\ n.movement = IF p.hits = <<>> THEN o.movement
                    ELSE PermittedBy(p.hits[Len(p.hits)].touch)
    /\ StoppedByAHit(o.velocity.x, p.velocity.x, p.hits, {"left", "right"})
    /\ StoppedByAHit(o.velocity.y, p.velocity.y, p.hits, {"top", "bottom"})
    /\ \A k \in 1..Len(p.misses) : \A j \in 1..Len(p.hits) : p.misses[k].id # p.hits[j].id

\* C32: a pair for which isCollision yields hit = false changes nothing, its
\* side touch flags true or not: after every pass the entity's touch list is
\* the one before with the ids of the hits not yet in it (there is a greeting
\* for each of these and for no other pair), its movement permissions are
\* those its last hit leaves, and the velocity it integrates is the one
\* before with only the components stopped that a hit flags; with no hit in
\* the pass, velocity and permissions are as before and the end of
\* collisionChecks empties the touch list.
C32_AMissChangesNothing ==
    [][TickStep =>
          \A i \in 1..Len(passLog') :
              MadeByHitsAlone(passLog'[i], objs[passLog'[i].h], objs'[passLog'[i].h])]_vars

\* The Player's checks have just found a hit and, in the same pass, a pair
\* that is no hit although isCollision set a side flag for it that the hit
\* does not set
C32_MissedWithASideFlag ==
    \E i \in 1..Len(passLog) :
        /\ passLog[i].hits # <<>>
        /\ \E k \in 1..Len(passLog[i].misses) : \E s \in {"top", "bottom", "left", "right"} :
              /\ passLog[i].misses[k].touch[s]
              /\ ~passLog[i].hits[Len(passLog[i].hits)].touch[s]

---------------------------------------------------------------------------
(* Properties of the touch points (CalcSpec) *)

\* The inset rectangle r straddles the edge at e of the other one on an axis:
\* it starts before the edge and ends after it
Straddles(from, to, e) == RLt(from, e) /\ RGt(to, e)

\* C33: the side touch flags are computed independently of the hit flag:
\* each is a comparison of edges on one axis alone (top and bottom on y, left
\* and right on x), whatever the other axis and the hit flag are, so that
\* rectangles overlapping on one axis only are no hit and have a side flag
\* set.
C33_TouchFlagsIgnoreTheHitFlag ==
    calc.done = "isCollision" =>
        /\ calc.ab.this.top =
               Straddles(Inset(calc.a).top, Inset(calc.a).bottom, Inset(calc.b).top)
        /\ calc.ab.this.bottom =
               Straddles(Inset(calc.a).top, Inset(calc.a).bottom, Inset(calc.b).bottom)
        /\ calc.ab.this.left =
               Straddles(Inset(calc.a).left, Inset(calc.a).right, Inset(calc.b).left)
        /\ calc.ab.this.right =
               Straddles(Inset(calc.a).left, Inset(calc.a).right, Inset(calc.b).right)

\* isCollision ran on canvases that overlap on the y axis and lie apart on
\* the x axis: no hit, and a side flag of the y axis is set
C33_SideFlagWithoutAHit ==
    /\ calc.done = "isCollision"
    /\ ~calc.ab.hit
    /\ RLe(Inset(calc.a).right, Inset(calc.b).left)
    /\ calc.ab.this.top \/ calc.ab.this.bottom

---------------------------------------------------------------------------
(* Properties of held keys (HeldSpec) *)

\* The magnitude of v is at most the step
WithinOneStep(v, step) == RLe(RNeg(step), v) /\ RLe(v, step)

\* C34 as stated: after any sequence of key-down events, key-up events and
\* ticks, repeated key-down events of a held key included, the magnitude of
\* a Player's velocity.x never exceeds xStep and that of velocity.y never
\* exceeds yStep.
C34_VelocityWithinOneStep ==
    \A h \in 1..Len(objs) :
        objs[h].class = "Player" =>
            /\ WithinOneStep(objs[h].velocity.x, objs[h].xVelocity)
            /\ WithinOneStep(objs[h].velocity.y, objs[h].yVelocity)

\* A key event has just left the Player of the running level with a
\* velocity of two steps upwards
C34_TwoStepsAfterARepeatedKeyDown ==
    /\ passLog = <<>>
    /\ \E i \in 1..Len(gameObjects) :
          /\ objs[gameObjects[i]].class = "Player"
          /\ objs[gameObjects[i]].yVelocity # Zero
          /\ objs[gameObjects[i]].velocity.y =
                 RNeg(RAdd(objs[gameObjects[i]].yVelocity, objs[gameObjects[i]].yVelocity))

---------------------------------------------------------------------------
(* Properties of the position objects (ShareSpec) *)

\* The step leaves entity h where its own handler puts it: a resize where
\* its own resize() puts it, a tick of the level leaves an Npc, whose
\* update() only draws, where it was, and a key event leaves every entity
\* where it was
OwnPositionKept(h) ==
    IF viewport' # viewport
    THEN objs'[h].position = Resize(objs[h], viewport').position
    ELSE (objs[h].class = "Npc" \/ updateLog' = <<>>)
             => objs'[h].position = objs[h].position

\* C35 as stated: entities do not share position state: updating or
\* resizing one entity leaves the position of every other entity unchanged,
\* entities built from descriptors without an initial position included.
C35_PositionsAreNotShared ==
    [][(started /\ gameObjects' = gameObjects)
          => \A i \in 1..Len(gameObjects) : OwnPositionKept(gameObjects[i])]_vars

\* A tick has just updated the level, and its Npc, built from a descriptor
\* without INIT_POSITION, is no longer at the default position
C35_NpcMovedWithThePlayer ==
    /\ updateLog # <<>>
    /\ \E i \in 1..Len(gameObjects) :
          /\ objs[gameObjects[i]].class = "Npc"
          /\ objs[gameObjects[i]].shared
          /\ objs[gameObjects[i]].position # INIT_POSITION

---------------------------------------------------------------------------
(* Properties of the canvases (NewSpec) *)

\* The entity with handle h is in the registry
Registered(h) == \E i \in 1..Len(gameObjects) : gameObjects[i] = h

\* C36 as stated: in every state between events, an entity's canvas is
\* attached to the page exactly when the entity is in the registry, after a
\* failed construction and after the teardown of a level too.
C36_CanvasAttachedIffRegistered ==
    \A h \in 1..Len(objs) :
        objs[h].canvas => (objs[h].attached <=> Registered(h))

\* The constructor call just made threw on a descriptor without src, and
\* the canvas it had appended by then is on the page, its entity in no
\* registry
C36_CanvasLeftByAFailedConstruction ==
    /\ opLog # <<>>
    /\ opLog[Len(opLog)].op = "new"
    /\ opLog[Len(opLog)].threw
    /\ objs[Len(objs)].class = "Character"
    /\ objs[Len(objs)].canvas /\ objs[Len(objs)].attached
    /\ ~Registered(Len(objs))

---------------------------------------------------------------------------
(* Properties of the greeting (HitsSpec) *)

\* The ids of the hits before hit k of these hits
EarlierIds(hits, k) == {hits[j].id : j \in 1..(k - 1)}

\* The pass p of this step, of an entity whose touch list was before and is
\* now after it: a hit was greeted exactly if its id was not on the list
\* when the pass began and no earlier hit of the pass had put it there, and
\* every id greeted is on the list afterwards
GreetedIfNew(p, before, now) ==
    \A k \in 1..Len(p.hits) :
        /\ p.hits[k].greeted <=>
               (~Includes(before, p.hits[k].id) /\ p.hits[k].id \notin EarlierIds(p.hits, k))
        /\ Includes(now, p.hits[k].id)

\* C37: the greeting for a touched entity fires only when its id is newly
\* added to the touch list: a hit on an entity whose id is on the list is
\* not greeted, on later ticks of a contact neither, and while the level
\* runs an id leaves the list only in a tick in which the entity's checks
\* hit nothing, so that the same entity is greeted again only after such a
\* tick.
C37_GreetedOnlyWhenNewlyTouched ==
    [][(started /\ gameObjects' = gameObjects) =>
          /\ TickStep =>
                \A i \in 1..Len(passLog') :
                    GreetedIfNew(passLog'[i], objs[passLog'[i].h].collisionEvents,
                                 objs'[passLog'[i].h].collisionEvents)
          /\ \A i \in 1..Len(gameObjects) :
                (\E k \in 1..Len(objs[gameObjects[i]].collisionEvents) :
                    ~Includes(objs'[gameObjects[i]].collisionEvents,
                              objs[gameObjects[i]].collisionEvents[k]))
                => /\ TickStep
                   /\ \E j \in 1..Len(passLog') :
                         passLog'[j].h = gameObjects[i] /\ passLog'[j].hits = <<>>]_vars

\* A tick has just found the Player on an Npc whose id was on its touch
\* list already, and there was no greeting for that hit
C37_ContactPersistsUngreeted ==
    \E i \in 1..Len(passLog) : \E k \in 1..Len(passLog[i].hits) :
        /\ objs[passLog[i].h].class = "Player"
        /\ ~passLog[i].hits[k].greeted
        /\ Includes(objs[passLog[i].h].collisionEvents, passLog[i].hits[k].id)

---------------------------------------------------------------------------
(* Properties of the entities of a level torn down (ReplaySpec) *)

\* C38 as stated: after a level is torn down its entities are inert, for any
\* level list: a step that shows the interaction panel shows it for an Npc
\* of the registry, never for a destroyed one, and a key event changes the
\* panel only through an Npc of the registry.
C38_DestroyedEntitiesAreInert ==
    [][\A k \in 1..Len(panelLog') :
          panelLog'[k].op = "open" =>
              /\ Registered(panelLog'[k].npc)
              /\ objs[panelLog'[k].npc].attached]_vars

\* An interact key has just opened the panel for an Npc of the level torn
\* down, whose id is on the touch list of the Player of the running level
C38_PanelOfADestroyedNpc ==
    /\ panelLog # <<>>
    /\ panelLog[Len(panelLog)].op = "open"
    /\ panel.isOpen
    /\ panel.currentNpc = panelLog[Len(panelLog)].npc
    /\ ~objs[panel.currentNpc].attached
    /\ ~Registered(panel.currentNpc)
    /\ \E i \in 1..Len(gameObjects) :
          /\ objs[gameObjects[i]].class = "Player"
          /\ Includes(objs[gameObjects[i]].collisionEvents, objs[panel.currentNpc].id)

---------------------------------------------------------------------------
(* Properties of the interact key with several Npcs touched (PanelSpec) *)

\* The Npcs constructed so far that have questions and whose id is on the
\* touch list of the entity with handle g
NamedBy(g) ==
    {h \in 1..Len(objs) :
        /\ objs[h].class = "Npc"
        /\ Len(objs[h].questions) > 0
        /\ Includes(objs[g].collisionEvents, objs[h].id)}

\* The touch list of an entity of the registry names several such Npcs
SeveralNamed == \E i \in 1..Len(gameObjects) : Cardinality(NamedBy(gameObjects[i])) >= 2

\* The earliest constructed of the Npcs a touch list of the registry names
EarliestNamed ==
    CHOOSE h \in UNION {NamedBy(gameObjects[i]) : i \in 1..Len(gameObjects)} :
        \A k \in UNION {NamedBy(gameObjects[i]) : i \in 1..Len(gameObjects)} : h <= k

\* The step is the keydown event of an interact key
InteractKeyDown == KeyDown("e") \/ KeyDown("u")

\* The step opens one panel, for the earliest constructed of the Npcs named,
\* and nothing else is done to the panel
OpensTheEarliest ==
    /\ panelLog' = <<PanelOp("open", EarliestNamed, <<>>)>>
    /\ panel'.isOpen
    /\ panel'.dims = 1
    /\ panel'.currentNpc = EarliestNamed

\* C39 as stated: an interact key pressed while a touch list names several
\* Npcs that have questions opens exactly one panel, that of the earliest
\* constructed of them.
C39_OnePanelOpensForTheEarliest ==
    [][(InteractKeyDown /\ SeveralNamed) => OpensTheEarliest]_vars

\* C39 amended: an interact key pressed while no panel is open and a touch
\* list names several Npcs that have questions opens exactly one panel, that
\* of the earliest constructed of them, and the later ones leave it
\* untouched; pressed while a panel is open, it opens none and leaves the
\* open panel as it is.
C39_OnePanelOpensIfNoneIsOpen ==
    [][(InteractKeyDown /\ SeveralNamed) =>
          IF panel.isOpen THEN panelLog' = <<>> /\ panel' = panel
          ELSE OpensTheEarliest]_vars

\* An interact key has just opened the panel of the earliest constructed of
\* several Npcs the Player's touch list names, and the Npc the Player hit in
\* its latest update is a later one
C39_OpenedForTheEarliestOfSeveral ==
    /\ SeveralNamed
    /\ panelLog = <<PanelOp("open", EarliestNamed, <<>>)>>
    /\ panel.isOpen
    /\ panel.currentNpc = EarliestNamed
    /\ \E i \in 1..Len(gameObjects) :
          /\ Cardinality(NamedBy(gameObjects[i])) >= 2
          /\ \E h \in NamedBy(gameObjects[i]) :
                h > EarliestNamed /\ objs[h].id \in HitIds(objs[gameObjects[i]])

====
